---- MODULE Spec2Model ----
(***************************************************************************)
(* Model of fell's sampling and delta-computation engine.                  *)
(*                                                                         *)
(* The sources hold two samplers of the same kernel accounting data; a     *)
(* build runs one of them (the variable `sampler`):                        *)
(*   - Proc::get_system (src/src/proc/mod.rs) with the PrevCpuMap store    *)
(*     (src/src/proc/mod.rs and src/src/proc/prev_cpu.rs) and CpuTime      *)
(*     (src/src/proc/cputime.rs);                                          *)
(*   - thread_main (src/src/sysinfo_thread.rs) with the ProcStats store    *)
(*     and CpuMetrics, which sends Snapshots to the application over a     *)
(*     channel and takes SendThreads messages from it.                     *)
(*                                                                         *)
(* Numbers.  /proc/uptime has centisecond resolution; an uptime is held    *)
(* as an integer number of centiseconds, so that f64 equality of two       *)
(* uptimes is equality of these integers.  A floating point result is      *)
(* held as the exact quotient it approximates (a reduced fraction), or as  *)
(* one of the IEEE special values a division by zero produces; rounding    *)
(* to the nearest f32/f64 is not represented.  A u64 subtraction whose     *)
(* mathematical result is negative panics when the build checks overflow   *)
(* and wraps to 2^64 + result when it does not.  The cast of such a        *)
(* wrapped difference to a float is 2^64: the counters of the model differ *)
(* by far less than the float's precision at 2^64, so the quotient the     *)
(* code computes from it is held as a multiple of 2^64.                    *)
(***************************************************************************)
EXTENDS Integers, Sequences, FiniteSets, TLC

\* ---------------------------------------------------------------- bounds
MaxPid == 2
MaxTicks == 1
MaxClockTicks == 1
MaxCpuTicks == 2
MaxQueue == 2

\* ------------------------------------------------------- program constants
\* sysconf(_SC_CLK_TCK) on Linux
TicksPerSecond == 100
\* recv_timeout(Duration::from_millis(1_500)), in centiseconds
WaitCs == 150
\* centiseconds per second: /proc/uptime is "<seconds>.<2 digits>"
CsPerSecond == 100

Ids == 1..MaxPid

\* ------------------------------------------------------------ f64 values
RECURSIVE gcd(_, _)
gcd(a, b) == IF b = 0 THEN a ELSE gcd(b, a % b)

Abs(x) == IF x < 0 THEN -x ELSE x

\* Option::None
None == [kind |-> "none", n |-> 0, d |-> 1]
NaN == [kind |-> "nan", n |-> 0, d |-> 1]
PosInf == [kind |-> "inf", n |-> 1, d |-> 1]
NegInf == [kind |-> "inf", n |-> -1, d |-> 1]
\* the thread unwound from a failed arithmetic check
Panic == [kind |-> "panic", n |-> 0, d |-> 1]

\* the finite value n / d, d # 0, in lowest terms with a positive denominator
Fin(n, d) ==
    LET g == gcd(Abs(n), Abs(d))
        s == IF d < 0 THEN -1 ELSE 1
    IN  [kind |-> "fin", n |-> (s * n) \div g, d |-> (s * d) \div g]

\* IEEE-754 division n / d of two finite values
fdiv(n, d) ==
    IF d # 0 THEN Fin(n, d)
    ELSE IF n = 0 THEN NaN
    ELSE IF n > 0 THEN PosInf
    ELSE NegInf

\* `x as f64 * scale / d` for the wrapped u64 x = 2^64 + off, off < 0, and
\* scale > 0.  The cast rounds x to 2^64 (f64 holds 53 bits, the f32 of the
\* result 24), so the value is 2^64 * scale / d whatever off is: the record
\* holds the reduced fraction n / d that multiplies 2^64, negative when d is.
Wrapped(off, scale, d) ==
    IF d = 0 THEN PosInf
    ELSE [Fin(scale, d) EXCEPT !.kind = "wrapped"]

\* a numeric percentage: a finite quotient of exact differences, not NaN, not
\* an infinity and not the quotient of a wrapped difference
IsNumber(v) == v.kind = "fin"

\* v <= k for a finite v and an integer k
FinLeq(v, k) == v.n <= k * v.d
FinGeq(v, k) == v.n >= k * v.d

\* u64 `a - b`: the difference, a panic ("attempt to subtract with
\* overflow") or the wrapped value, by the build's overflow checks
u64_sub(a, b, checks) ==
    IF a >= b THEN [kind |-> "ok", v |-> a - b]
    ELSE IF checks THEN [kind |-> "panic", v |-> 0]
    ELSE [kind |-> "wrap", v |-> a - b]

\* u64 `x * k` of the result x of a u64 subtraction and k > 0.  A panicked
\* subtraction never reaches the multiplication; the wrapped 2^64 + off
\* multiplies to 2^64 + off * k modulo 2^64, wrapped again.  The product of
\* an exact difference stays far below u64::MAX for the counters of the
\* model, so the multiplication itself neither wraps nor panics.
u64_mul(x, k) ==
    IF x.kind = "panic" THEN x
    ELSE [kind |-> x.kind, v |-> x.v * k]

\* u64::saturating_add.  The counters of the model stay far below u64::MAX,
\* where the sum is the mathematical one.
saturating_add(a, b) == a + b

\* the elements of a finite set of integers in ascending order
RECURSIVE SortedSeq(_)
SortedSeq(S) ==
    IF S = {} THEN <<>>
    ELSE LET m == CHOOSE x \in S : \A y \in S : x <= y
         IN  <<m>> \o SortedSeq(S \ {m})

Range(s) == {s[i] : i \in DOMAIN s}

\* ------------------------------------------- per-process calculators
\* PrevCpu { uptime, cpu_used } and ProcStats { last_update, used_time }:
\* a store is a function from the identities it holds to such records.

\* `x as f64 * scale / den` where x is the result of a u64 subtraction or
\* of u64_mul
sub_quot(x, scale, den) ==
    IF x.kind = "panic" THEN Panic
    ELSE IF x.kind = "wrap" THEN Wrapped(x.v, scale, den)
    ELSE fdiv(x.v * scale, den)

\* an insert that replaces the whole map by the one new entry
Put_mutant(map, pid, entry) == [p \in {pid} |-> entry]

\* HashMap::insert / the assignment through get_mut
Put(map, pid, entry) ==
    [p \in DOMAIN map \cup {pid} |-> IF p = pid THEN entry ELSE map[p]]

\* a calculate that clamps its percentage to 100
PrevCpuMap_calculate_clamped(self, pid, uptime, cpu_used, ticks, checks) ==
    IF pid \in DOMAIN self
    THEN LET prev_cpu == self[pid]
             cpu_usage == sub_quot(u64_sub(cpu_used, prev_cpu.cpu_used, checks),
                                   100 * CsPerSecond,
                                   (uptime - prev_cpu.uptime) * ticks)
         IN  IF cpu_usage.kind = "panic"
             THEN [ret |-> Panic, map |-> self]
             ELSE [ret |-> IF cpu_usage.kind = "fin" /\ FinGeq(cpu_usage, 100)
                           THEN Fin(100, 1) ELSE cpu_usage,
                   map |-> Put(self, pid, [uptime |-> uptime, cpu_used |-> cpu_used])]
    ELSE [ret |-> None,
          map |-> Put(self, pid, [uptime |-> uptime, cpu_used |-> cpu_used])]

\* PrevCpuMap::calculate of proc/prev_cpu.rs.  uptime is in centiseconds,
\* so (uptime - prev.uptime) seconds * ticks is dt * ticks / CsPerSecond.
PrevCpuMap_calculate(self, pid, uptime, cpu_used, ticks, checks) ==
    IF pid \in DOMAIN self
    THEN LET prev_cpu == self[pid]
             cpu_usage == sub_quot(u64_sub(cpu_used, prev_cpu.cpu_used, checks),
                                   100 * CsPerSecond,
                                   (uptime - prev_cpu.uptime) * ticks)
         IN  IF cpu_usage.kind = "panic"
             THEN [ret |-> Panic, map |-> self]
             ELSE [ret |-> cpu_usage,
                   map |-> Put(self, pid, [uptime |-> uptime, cpu_used |-> cpu_used])]
    ELSE [ret |-> None,
          map |-> Put(self, pid, [uptime |-> uptime, cpu_used |-> cpu_used])]

\* PrevCpuMap::calculate of proc/mod.rs:
\* ((cpu_used - prev.cpu_used) * ticks) as f64 / (uptime - prev.uptime)
\* The difference is multiplied by ticks as a u64, before the cast; the
\* divisor is in seconds, (uptime - prev.uptime) / CsPerSecond.
mod_PrevCpuMap_calculate(self, pid, uptime, cpu_used, ticks, checks) ==
    IF pid \in DOMAIN self
    THEN LET prev_cpu == self[pid]
             cpu_usage == sub_quot(u64_mul(u64_sub(cpu_used, prev_cpu.cpu_used, checks),
                                           ticks),
                                   CsPerSecond,
                                   uptime - prev_cpu.uptime)
         IN  IF cpu_usage.kind = "panic"
             THEN [ret |-> Panic, map |-> self]
             ELSE [ret |-> cpu_usage,
                   map |-> Put(self, pid, [uptime |-> uptime, cpu_used |-> cpu_used])]
    ELSE [ret |-> None,
          map |-> Put(self, pid, [uptime |-> uptime, cpu_used |-> cpu_used])]

\* PrevCpuMap::cleanup: retain(|_, p| p.uptime.eq(&uptime))
PrevCpuMap_cleanup(self, uptime) ==
    [p \in {q \in DOMAIN self : self[q].uptime = uptime} |-> self[p]]

\* ProcStats::default()
ProcStats_default == [last_update |-> 0, used_time |-> 0]

\* ProcStatsHashMap::cpu_usage of sysinfo_thread.rs; used_time is
\* stat.stime + stat.utime.  The result is an f64, never an Option.
ProcStatsHashMap_cpu_usage(self, pid, used_time, uptime, ticks_per_sec, checks) ==
    LET old_stat == IF pid \in DOMAIN self THEN self[pid] ELSE ProcStats_default
        cpu_usage ==
            IF old_stat.last_update > 0
            THEN sub_quot(u64_sub(used_time, old_stat.used_time, checks),
                          100 * CsPerSecond,
                          (uptime - old_stat.last_update) * ticks_per_sec)
            ELSE Fin(0, 1)
    IN  IF cpu_usage.kind = "panic"
        THEN [ret |-> Panic, map |-> Put(self, pid, old_stat)]
        ELSE [ret |-> cpu_usage,
              map |-> Put(self, pid, [last_update |-> uptime, used_time |-> used_time])]

\* ------------------------------------------------- system CPU counters
Categories ==
    {"user", "nice", "system", "idle", "iowait", "irq", "softirq",
     "steal", "guest", "guest_nice"}

\* CpuTime::default() / CpuMetrics::default()
CpuTime_default == [c \in Categories |-> 0]

\* the quotient of two u64 subtractions, `num as f * 100.0 / den as f`; with a
\* wrapped denominator (about 2^64) the quotient is "tiny" for an exact
\* numerator and about 100 when both wrapped
sub_ratio(num, den) ==
    IF num.kind = "panic" \/ den.kind = "panic" THEN Panic
    ELSE IF den.kind = "ok" THEN sub_quot(num, 100, den.v)
    ELSE IF num.kind = "ok"
         THEN IF num.v = 0 THEN Fin(0, 1)
              ELSE [kind |-> "tiny", n |-> num.v * 100, d |-> den.v]
    ELSE [kind |-> "wrapped_both", n |-> num.v * 100, d |-> den.v]

\* CpuTime::work of proc/cputime.rs
CpuTime_work(self) ==
    saturating_add(saturating_add(saturating_add(saturating_add(
        self.user, self.system), self.nice), self.irq), self.softirq)

\* a total that takes idle, iowait, irq, softirq, steal, guest and guest_nice
\* and leaves out work()
CpuTime_total_mutant(self) ==
    saturating_add(saturating_add(saturating_add(saturating_add(
    saturating_add(saturating_add(
        self.idle, self.iowait), self.irq), self.softirq),
        self.steal), self.guest), self.guest_nice)

\* CpuTime::total of proc/cputime.rs: irq and softirq are added again on
\* top of work()
CpuTime_total(self) ==
    saturating_add(saturating_add(saturating_add(saturating_add(
    saturating_add(saturating_add(saturating_add(
        CpuTime_work(self), self.idle), self.iowait), self.irq), self.softirq),
        self.steal), self.guest), self.guest_nice)

\* CpuTime::cpu_usage of proc/cputime.rs
CpuTime_cpu_usage(self, old, checks) ==
    sub_ratio(u64_sub(CpuTime_work(self), CpuTime_work(old), checks),
              u64_sub(CpuTime_total(self), CpuTime_total(old), checks))

\* CpuMetrics::work_time of sysinfo_thread.rs
CpuMetrics_work_time(self) ==
    saturating_add(saturating_add(saturating_add(saturating_add(
        self.user, self.system), self.nice), self.irq), self.softirq)

\* CpuMetrics::total_time of sysinfo_thread.rs
CpuMetrics_total_time(self) ==
    saturating_add(saturating_add(saturating_add(saturating_add(saturating_add(
        CpuMetrics_work_time(self), self.idle), self.iowait), self.steal),
        self.guest), self.guest_nice)

\* CpuMetrics::cpu_usage of sysinfo_thread.rs
CpuMetrics_cpu_usage(self, old, checks) ==
    sub_ratio(u64_sub(CpuMetrics_work_time(self), CpuMetrics_work_time(old), checks),
              u64_sub(CpuMetrics_total_time(self), CpuMetrics_total_time(old), checks))

\* ------------------------------------------------------------ the state
VARIABLES
    \* the kernel
    uptime,           \* /proc/uptime, centiseconds
    task,             \* /proc/<pid>/task/<tid>: id -> task record
    cpu_time,         \* /proc/stat: <<aggregate line, cpu0, ...>>
    \* the build
    overflow_checks,  \* whether integer overflow panics (debug) or wraps
    sampler,          \* the sampler the build runs: Proc with the PrevCpuMap
                      \* impl of proc/mod.rs ("Proc_mod") or of proc/prev_cpu.rs
                      \* ("Proc_prev_cpu"), or thread_main ("thread_main")
    \* Proc of proc/mod.rs
    prev_cpus,        \* Proc.prev_cpus
    prev_cpu_time,    \* Proc.prev_cpu_time
    get_system_ret,   \* what the last get_system call returned
    prev_cpus_dead,   \* history: ids whose baseline was taken from a task that
                      \* has exited since
    proc_calls,       \* history: the calculate calls of the last get_system
    stat_parsed,      \* what the last Stat::parse call was given and returned
    \* thread_main of sysinfo_thread.rs
    pc,               \* where the sampler thread is
    procstats,
    cpu_total_prev,
    cpus_prev,
    send_threads,
    thr_uptime,       \* the local `uptime` of the current loop iteration
    procstats_dead,   \* history: ids whose baseline was taken from a task that
                      \* has exited since
    thread_calls,     \* history: the cpu_usage calls of the last pass
    toggled,          \* history: the last recv_timeout changed send_threads
    \* the channels and the application
    thread_rx,        \* messages sent on thread_tx, not yet received
    main_rx,          \* messages sent on main_tx, not yet received
    app_running,      \* the application holds thread_rx and main_tx
    event_thread,     \* event::thread_main: its position, the number of events
                      \* it has read and the result of its last event::read()
    app,              \* App: the position of run, exit, current_data, and how
                      \* run has ended
    process_list      \* ProcessList: current_data.processes, with the list
                      \* that was delivered to set_data

kernel_vars == <<uptime, task, cpu_time>>
build_vars == <<overflow_checks, sampler>>
proc_vars == <<prev_cpus, prev_cpu_time, get_system_ret, proc_calls, stat_parsed>>
thread_vars ==
    <<pc, procstats, cpu_total_prev, cpus_prev, send_threads, thr_uptime,
      thread_calls, toggled>>
ui_vars == <<event_thread, app, process_list>>
chan_vars == <<thread_rx, main_rx, app_running, ui_vars>>
dead_vars == <<prev_cpus_dead, procstats_dead>>
vars == <<kernel_vars, build_vars, proc_vars, thread_vars, chan_vars, dead_vars>>

\* ----------------------------------------------------------- the kernel
NumCpus == 1

NoTask == [alive |-> FALSE, tgid |-> 0, ticks |-> 0, kthread |-> FALSE,
           released |-> FALSE]

\* the uptime at which the samplers start
BootUptime == WaitCs

Leaders == {id \in Ids : task[id].alive /\ task[id].tgid = id}
Group(p) == {id \in Ids : task[id].alive /\ task[id].tgid = p}

\* the num_threads field of /proc/<p>/stat: the kernel prints 0 for a task
\* that is being released (its signal structure is gone)
Stat_num_threads(p) == IF task[p].released THEN 0 ELSE Cardinality(Group(p))

RECURSIVE SumTicks(_)
SumTicks(S) ==
    IF S = {} THEN 0
    ELSE LET x == CHOOSE y \in S : TRUE IN task[x].ticks + SumTicks(S \ {x})

\* utime + stime of /proc/<pid>/stat: the whole thread group
ProcessTicks(p) == SumTicks(Group(p))
\* utime + stime of /proc/<pid>/task/<tid>/stat
TaskTicks(t) == task[t].ticks

RECURSIVE SumCats(_, _)
SumCats(line, cats) ==
    IF cats = {} THEN 0
    ELSE LET c == CHOOSE x \in cats : TRUE IN line[c] + SumCats(line, cats \ {c})

BootCpuLine(n) == [CpuTime_default EXCEPT !["idle"] = n * BootUptime]

KernelInit ==
    /\ uptime = BootUptime
    /\ task = [id \in Ids |-> IF id = 1
                              THEN [alive |-> TRUE, tgid |-> 1, ticks |-> 0,
                                    kthread |-> FALSE, released |-> FALSE]
                              ELSE NoTask]
    /\ cpu_time = <<BootCpuLine(NumCpus)>> \o [k \in 1..NumCpus |-> BootCpuLine(1)]

\* WaitCs of wall-clock time pass with the CPUs idle
ClockTick ==
    /\ uptime < BootUptime + MaxClockTicks * WaitCs
    /\ uptime' = uptime + WaitCs
    /\ cpu_time' = [k \in DOMAIN cpu_time |->
                      [cpu_time[k] EXCEPT !["idle"] =
                          @ + (IF k = 1 THEN NumCpus ELSE 1) * WaitCs]]
    /\ UNCHANGED <<task, dead_vars>>

\* one CPU accounts one tick to a category
CpuTick(k, cat) ==
    /\ SumCats(cpu_time[1], Categories) - NumCpus * uptime < MaxCpuTicks
    /\ cpu_time' = [cpu_time EXCEPT ![1][cat] = @ + 1, ![1 + k][cat] = @ + 1]
    /\ UNCHANGED <<uptime, task, dead_vars>>

\* the iowait counter of one CPU is corrected downwards by one tick (the
\* kernel documents that the iowait field of /proc/stat can decrease)
CpuTickBack(k) ==
    /\ cpu_time[1 + k]["iowait"] > 0
    /\ cpu_time' = [cpu_time EXCEPT ![1]["iowait"] = @ - 1, ![1 + k]["iowait"] = @ - 1]
    /\ UNCHANGED <<uptime, task, dead_vars>>

\* the most CPUs that are online at a time
MaxCpus == 2

\* a CPU comes online: /proc/stat lists one more cpuN line (the aggregate
\* line of the model keeps counting the NumCpus CPUs of the boot only)
CpuOnline ==
    /\ Len(cpu_time) - 1 < MaxCpus
    /\ cpu_time' = Append(cpu_time, CpuTime_default)
    /\ UNCHANGED <<uptime, task, dead_vars>>

\* the CPU that came online last goes offline: its cpuN line is no longer
\* listed
CpuOffline ==
    /\ Len(cpu_time) - 1 > NumCpus
    /\ cpu_time' = SubSeq(cpu_time, 1, Len(cpu_time) - 1)
    /\ UNCHANGED <<uptime, task, dead_vars>>

\* a task is charged one tick of CPU time
Run(id) ==
    /\ task[id].alive
    /\ task[id].ticks < MaxTicks
    /\ task' = [task EXCEPT ![id].ticks = @ + 1]
    /\ UNCHANGED <<uptime, cpu_time, dead_vars>>

\* fork/exec: a free identifier is given to a new process
Spawn(id, kthread) ==
    /\ ~task[id].alive
    /\ task' = [task EXCEPT ![id] = [alive |-> TRUE, tgid |-> id, ticks |-> 0,
                                     kthread |-> kthread, released |-> FALSE]]
    /\ UNCHANGED <<uptime, cpu_time, dead_vars>>

\* clone(CLONE_THREAD): a free identifier is given to a new thread of p
Clone(p, id) ==
    /\ p \in Leaders
    /\ ~task[id].alive
    /\ task' = [task EXCEPT ![id] = [alive |-> TRUE, tgid |-> p, ticks |-> 0,
                                     kthread |-> task[p].kthread,
                                     released |-> FALSE]]
    /\ UNCHANGED <<uptime, cpu_time, dead_vars>>

\* release_task: the kernel starts to release an exited process, whose
\* /proc entry is still listed
Release(p) ==
    /\ p \in Leaders
    /\ ~task[p].released
    /\ task' = [task EXCEPT ![p].released = TRUE]
    /\ UNCHANGED <<uptime, cpu_time, dead_vars>>

\* a process exits with all its threads
Exit(p) ==
    /\ p \in Leaders
    /\ task' = [id \in Ids |-> IF id \in Group(p) THEN NoTask ELSE task[id]]
    /\ prev_cpus_dead' = prev_cpus_dead \cup (Group(p) \cap DOMAIN prev_cpus)
    /\ procstats_dead' = procstats_dead \cup (Group(p) \cap DOMAIN procstats)
    /\ UNCHANGED <<uptime, cpu_time>>

\* ------------------------------------------ thread_main (sysinfo_thread)
\* what one call of a per-process calculator saw and returned
\* (had: the store held the identity; dt, dc: the uptime and tick differences
\* to the stored pair, 0 without one; same_task: the stored pair was sampled
\* from the task that is sampled now)
CallRecord(map_has, t0, c0, t1, c1, ret, base_dead) ==
    [had |-> map_has,
     dt |-> IF map_has THEN t1 - t0 ELSE 0,
     dc |-> IF map_has THEN c1 - c0 ELSE 0,
     ret |-> ret,
     same_task |-> ~(map_has /\ base_dead)]

NoCalls == [id \in {} |-> 0]

\* ThreadCount::default()
ThreadCount_default == [processes |-> 0, kernel_threads |-> 0, threads |-> 0]

\* a match that has no arm of its own for kernel threads
CountType_mutant(tc, ptype) ==
    IF ptype = "Process" THEN [tc EXCEPT !.processes = @ + 1]
    ELSE [tc EXCEPT !.threads = @ + 1]

\* the `match procinfo.process_type` of convert_to_process_infos
CountType(tc, ptype) ==
    IF ptype = "Process" THEN [tc EXCEPT !.processes = @ + 1]
    ELSE IF ptype = "KernelThread" THEN [tc EXCEPT !.kernel_threads = @ + 1]
    ELSE [tc EXCEPT !.threads = @ + 1]

\* the state convert_to_process_infos threads through its loop
ConvertStart(map, dead) ==
    [map |-> map, dead |-> dead, infos |-> <<>>, tc |-> ThreadCount_default,
     calls |-> NoCalls, panicked |-> FALSE]

\* procstats.cpu_usage(id, &stat, uptime, ticks_per_sec) inside from_process
\* and from_task, with the history of the call
Observe(acc, id, used_time, up) ==
    LET r == ProcStatsHashMap_cpu_usage(acc.map, id, used_time, up,
                                        TicksPerSecond, overflow_checks)
        had == id \in DOMAIN acc.map
        old == IF had THEN acc.map[id] ELSE ProcStats_default
    IN  [acc EXCEPT
            !.map = r.map,
            !.dead = acc.dead \ {id},
            !.calls = Put(acc.calls, id,
                          CallRecord(had, old.last_update, old.used_time, up,
                                     used_time, r.ret, id \in acc.dead)),
            !.panicked = r.ret.kind = "panic"]

\* ProcessInfo::from_process and the accounting around it
from_process(acc, p, up, unreadable, no_cmdline) ==
    LET stat_ok == p \notin unreadable
        a == IF stat_ok THEN Observe(acc, p, ProcessTicks(p), up) ELSE acc
        cpu_usage == IF stat_ok THEN a.calls[p].ret ELSE Fin(0, 1)
        \* stat.num_threads - 1, an i64
        threads == IF stat_ok THEN Stat_num_threads(p) - 1 ELSE 0
        \* p.cmdline(): Err gives Process, Ok(empty) KernelThread
        process_type == IF p \in no_cmdline THEN "Process"
                        ELSE IF task[p].kthread THEN "KernelThread"
                        ELSE "Process"
        \* cmd.join(" "), or String::default() when cmdline() is Err
        command == IF p \in no_cmdline \/ task[p].kthread THEN "" ELSE "cmd"
    IN  IF a.panicked THEN a
        ELSE [a EXCEPT
                !.tc = CountType([a.tc EXCEPT !.threads = @ + threads], process_type),
                !.infos = Append(a.infos, [pid |-> p, cpu_usage |-> cpu_usage,
                                           command |-> command,
                                           process_type |-> process_type])]

\* ProcessInfo::from_task and the accounting around it
from_task(acc, t, p, up, unreadable, no_cmdline) ==
    LET stat_ok == t \notin unreadable
        a == IF stat_ok THEN Observe(acc, t, TaskTicks(t), up) ELSE acc
        cpu_usage == IF stat_ok THEN a.calls[t].ret ELSE Fin(0, 1)
        \* p.cmdline(): Err gives Process, Ok(empty) KernelThread
        process_type == IF p \in no_cmdline THEN "Process"
                        ELSE IF task[p].kthread THEN "KernelThread"
                        ELSE IF p = t THEN "Process"
                        ELSE "Thread"
        \* cmd.join(" "), or String::default() when cmdline() is Err
        command == IF p \in no_cmdline \/ task[p].kthread THEN "" ELSE "cmd"
    IN  IF a.panicked THEN a
        ELSE [a EXCEPT
                !.tc = CountType(a.tc, process_type),
                !.infos = Append(a.infos, [pid |-> t, cpu_usage |-> cpu_usage,
                                           command |-> command,
                                           process_type |-> process_type])]

RECURSIVE tasks_loop(_, _, _, _, _, _)
tasks_loop(acc, ts, p, up, unreadable, no_cmdline) ==
    IF ts = <<>> \/ acc.panicked THEN acc
    ELSE tasks_loop(from_task(acc, Head(ts), p, up, unreadable, no_cmdline),
                    Tail(ts), p, up, unreadable, no_cmdline)

\* convert_to_process_infos: `for p in processes.flatten()`
RECURSIVE convert_to_process_infos(_, _, _, _, _, _)
convert_to_process_infos(acc, processes, threads_mode, up, unreadable, no_cmdline) ==
    IF processes = <<>> \/ acc.panicked THEN acc
    ELSE LET p == Head(processes)
             a == IF ~threads_mode
                  THEN from_process(acc, p, up, unreadable, no_cmdline)
                  ELSE tasks_loop(acc, SortedSeq(Group(p)), p, up, unreadable,
                                  no_cmdline)
         IN  convert_to_process_infos(a, Tail(processes), threads_mode, up,
                                      unreadable, no_cmdline)

\* the KernelStats block of thread_main: <<average_cpu, cpu_percents>>
RECURSIVE ZipUsage(_, _)
ZipUsage(cpus, olds) ==
    IF cpus = <<>> \/ olds = <<>> THEN <<>>
    ELSE <<CpuMetrics_cpu_usage(Head(cpus), Head(olds), overflow_checks)>>
         \o ZipUsage(Tail(cpus), Tail(olds))

\* a sequence of percentages as the Option<Vec<f64>> of a Snapshot
SomeVec(v) == [kind |-> "some", v |-> v]
NoneVec == [kind |-> "none", v |-> <<>>]

\* System::new: uptime as whole seconds
System_new(processes, thread_count, up, load_avg, average_cpu, cpu_percents, mem_info) ==
    [processes |-> processes, thread_count |-> thread_count,
     uptime |-> up \div CsPerSecond, load_avg |-> load_avg,
     average_cpu |-> average_cpu, cpu_percents |-> cpu_percents,
     mem_info |-> mem_info]

\* what can fail to be read in one pass (at most one source per pass)
ThreadFailures == {"none", "uptime", "processes", "loadavg", "kernelstats", "meminfo"}

ThreadInit ==
    /\ pc = "sample"
    /\ procstats = [id \in {} |-> ProcStats_default]
    /\ cpu_total_prev = CpuTime_default
    /\ cpus_prev = <<>>
    /\ send_threads = FALSE
    /\ thr_uptime = 0
    /\ procstats_dead = {}
    /\ thread_calls = NoCalls
    /\ toggled = FALSE

\* a pass that forgets its system baselines when KernelStats::current() fails
ThreadSample_mutant(fail, unreadable, no_cmdline) ==
    /\ sampler = "thread_main"
    /\ pc = "sample"
    /\ Len(thread_rx) < MaxQueue
    /\ IF fail = "uptime"
       THEN /\ pc' = "stopped"
            /\ UNCHANGED <<procstats, cpu_total_prev, cpus_prev, send_threads,
                           thr_uptime, procstats_dead, thread_calls, thread_rx>>
       ELSE LET conv == IF fail = "processes"
                        THEN ConvertStart(procstats, procstats_dead)
                        ELSE convert_to_process_infos(
                                 ConvertStart(procstats, procstats_dead),
                                 SortedSeq(Leaders), send_threads, uptime,
                                 unreadable, no_cmdline)
                load_avg == IF fail = "loadavg" THEN "default" ELSE "read"
                mem_info == IF fail = "meminfo" THEN "default" ELSE "read"
                kstat_ok == fail # "kernelstats"
                metrics == cpu_time[1]
                cpus == Tail(cpu_time)
                have_prev == CpuMetrics_total_time(cpu_total_prev) > 0
                average_cpu == IF kstat_ok /\ have_prev
                               THEN CpuMetrics_cpu_usage(metrics, cpu_total_prev,
                                                         overflow_checks)
                               ELSE None
                cpu_percents == IF kstat_ok /\ have_prev
                                THEN SomeVec(ZipUsage(cpus, cpus_prev))
                                ELSE NoneVec
                panicked == \/ conv.panicked
                            \/ average_cpu.kind = "panic"
                            \/ \E i \in DOMAIN cpu_percents.v :
                                  cpu_percents.v[i].kind = "panic"
                sys == System_new(conv.infos, conv.tc, uptime, load_avg,
                                  average_cpu, cpu_percents, mem_info)
            IN  /\ thread_calls' = conv.calls
                /\ thr_uptime' = uptime
                /\ UNCHANGED send_threads
                /\ IF panicked
                   THEN /\ pc' = "panicked"
                        /\ procstats' = conv.map
                        /\ procstats_dead' = conv.dead
                        /\ UNCHANGED <<cpu_total_prev, cpus_prev, thread_rx>>
                   ELSE /\ cpu_total_prev' = IF kstat_ok THEN metrics ELSE CpuTime_default
                        /\ cpus_prev' = IF kstat_ok THEN cpus ELSE <<>>
                        /\ IF app_running
                           THEN /\ thread_rx' = Append(thread_rx,
                                                      [type |-> "SysInfo", sys |-> sys])
                                \* procstats.retain(|_, p| p.last_update.eq(&uptime))
                                /\ procstats' =
                                     [id \in {q \in DOMAIN conv.map :
                                                conv.map[q].last_update = uptime}
                                        |-> conv.map[id]]
                                /\ procstats_dead' =
                                     {id \in conv.dead :
                                        /\ id \in DOMAIN conv.map
                                        /\ conv.map[id].last_update = uptime}
                                /\ pc' = "wait"
                           ELSE /\ pc' = "stopped"
                                /\ procstats' = conv.map
                                /\ procstats_dead' = conv.dead
                                /\ UNCHANGED thread_rx
    /\ UNCHANGED <<kernel_vars, build_vars, proc_vars, main_rx, app_running, ui_vars,
                   prev_cpus_dead, toggled>>

\* one loop iteration of thread_main up to the recv_timeout call.  tx.send
\* never blocks (mpsc::channel() is unbounded); the guard on Len(thread_rx)
\* only caps the exploration at MaxQueue messages in flight.
ThreadSample(fail, unreadable, no_cmdline) ==
    /\ sampler = "thread_main"
    /\ pc = "sample"
    /\ Len(thread_rx) < MaxQueue
    /\ IF fail = "uptime"
       THEN /\ pc' = "stopped"
            /\ UNCHANGED <<procstats, cpu_total_prev, cpus_prev, send_threads,
                           thr_uptime, procstats_dead, thread_calls, thread_rx>>
       ELSE LET conv == IF fail = "processes"
                        THEN ConvertStart(procstats, procstats_dead)
                        ELSE convert_to_process_infos(
                                 ConvertStart(procstats, procstats_dead),
                                 SortedSeq(Leaders), send_threads, uptime,
                                 unreadable, no_cmdline)
                load_avg == IF fail = "loadavg" THEN "default" ELSE "read"
                mem_info == IF fail = "meminfo" THEN "default" ELSE "read"
                kstat_ok == fail # "kernelstats"
                metrics == cpu_time[1]
                cpus == Tail(cpu_time)
                have_prev == CpuMetrics_total_time(cpu_total_prev) > 0
                average_cpu == IF kstat_ok /\ have_prev
                               THEN CpuMetrics_cpu_usage(metrics, cpu_total_prev,
                                                         overflow_checks)
                               ELSE None
                cpu_percents == IF kstat_ok /\ have_prev
                                THEN SomeVec(ZipUsage(cpus, cpus_prev))
                                ELSE NoneVec
                panicked == \/ conv.panicked
                            \/ average_cpu.kind = "panic"
                            \/ \E i \in DOMAIN cpu_percents.v :
                                  cpu_percents.v[i].kind = "panic"
                sys == System_new(conv.infos, conv.tc, uptime, load_avg,
                                  average_cpu, cpu_percents, mem_info)
            IN  /\ thread_calls' = conv.calls
                /\ thr_uptime' = uptime
                /\ UNCHANGED send_threads
                /\ IF panicked
                   THEN /\ pc' = "panicked"
                        /\ procstats' = conv.map
                        /\ procstats_dead' = conv.dead
                        /\ UNCHANGED <<cpu_total_prev, cpus_prev, thread_rx>>
                   ELSE /\ cpu_total_prev' = IF kstat_ok THEN metrics ELSE cpu_total_prev
                        /\ cpus_prev' = IF kstat_ok THEN cpus ELSE cpus_prev
                        /\ IF app_running
                           THEN /\ thread_rx' = Append(thread_rx,
                                                      [type |-> "SysInfo", sys |-> sys])
                                \* procstats.retain(|_, p| p.last_update.eq(&uptime))
                                /\ procstats' =
                                     [id \in {q \in DOMAIN conv.map :
                                                conv.map[q].last_update = uptime}
                                        |-> conv.map[id]]
                                /\ procstats_dead' =
                                     {id \in conv.dead :
                                        /\ id \in DOMAIN conv.map
                                        /\ conv.map[id].last_update = uptime}
                                /\ pc' = "wait"
                           ELSE /\ pc' = "stopped"
                                /\ procstats' = conv.map
                                /\ procstats_dead' = conv.dead
                                /\ UNCHANGED thread_rx
    /\ UNCHANGED <<kernel_vars, build_vars, proc_vars, main_rx, app_running, ui_vars,
                   prev_cpus_dead, toggled>>

\* rx.recv_timeout(1500 ms) returns and the rest of the loop body runs
ThreadWait ==
    /\ pc = "wait"
    /\ pc' = "sample"
    /\ \/ \* Ok(message)
          /\ main_rx # <<>>
          /\ main_rx' = Tail(main_rx)
          /\ IF Head(main_rx).type = "SendThreads"
                /\ send_threads # Head(main_rx).state
             THEN /\ procstats' = [id \in {} |-> ProcStats_default]
                  /\ procstats_dead' = {}
                  /\ send_threads' = Head(main_rx).state
                  /\ toggled' = TRUE
             ELSE /\ toggled' = FALSE
                  /\ UNCHANGED <<procstats, procstats_dead, send_threads>>
       \/ \* Err(Timeout)
          /\ main_rx = <<>>
          /\ app_running
          /\ uptime >= thr_uptime + WaitCs
          /\ toggled' = FALSE
          /\ UNCHANGED <<main_rx, procstats, procstats_dead, send_threads>>
       \/ \* Err(Disconnected)
          /\ main_rx = <<>>
          /\ ~app_running
          /\ toggled' = FALSE
          /\ UNCHANGED <<main_rx, procstats, procstats_dead, send_threads>>
    /\ UNCHANGED <<kernel_vars, build_vars, proc_vars, cpu_total_prev, cpus_prev,
                   thr_uptime, thread_calls, thread_rx, app_running, ui_vars, prev_cpus_dead>>

\* --------------------------------------------------------- the channels
ChanInit ==
    /\ thread_rx = <<>>
    /\ main_rx = <<>>
    /\ app_running = TRUE
    /\ event_thread = [pc |-> "read", read |-> 0, last |-> "none"]
    /\ app = [pc |-> "draw", exit |-> FALSE, current_data |-> [type |-> "default"],
              ret |-> "running", last |-> "none"]
    /\ process_list = [state |-> "new", delivered |-> <<>>, processes |-> <<>>]

\* ------------------------------------------- event thread (event.rs)
\* the most events the terminal delivers
MaxEvents == 3

\* an event thread that keeps reading after a failed read
EventThread_mutant(ok) ==
    /\ event_thread.pc = "read"
    /\ event_thread.read < MaxEvents
    /\ (ok /\ app_running) => Len(thread_rx) < MaxQueue
    /\ IF ~ok
       THEN /\ event_thread' = [event_thread EXCEPT !.last = "Err"]
            /\ UNCHANGED thread_rx
       ELSE IF ~app_running
       THEN /\ event_thread' = [pc |-> "stopped", read |-> event_thread.read + 1,
                                last |-> "Ok"]
            /\ UNCHANGED thread_rx
       ELSE /\ event_thread' = [pc |-> "read", read |-> event_thread.read + 1,
                                last |-> "Ok"]
            /\ thread_rx' = Append(thread_rx, [type |-> "Event",
                                               n |-> event_thread.read + 1])
    /\ UNCHANGED <<kernel_vars, build_vars, proc_vars, thread_vars, main_rx, app_running,
                   app, process_list, dead_vars>>

\* one iteration of `while let Ok(event) = event::read()` of thread_main;
\* ok: event::read() returns Ok. The events are numbered as they are read.
EventThread(ok) ==
    /\ event_thread.pc = "read"
    /\ event_thread.read < MaxEvents
    /\ (ok /\ app_running) => Len(thread_rx) < MaxQueue
    /\ IF ~ok
       THEN \* the loop ends and the thread returns
            /\ event_thread' = [event_thread EXCEPT !.pc = "stopped", !.last = "Err"]
            /\ UNCHANGED thread_rx
       ELSE IF ~app_running
       THEN \* tx.send(..).is_err(): the receiver is dropped; break
            /\ event_thread' = [pc |-> "stopped", read |-> event_thread.read + 1,
                                last |-> "Ok"]
            /\ UNCHANGED thread_rx
       ELSE /\ event_thread' = [pc |-> "read", read |-> event_thread.read + 1,
                                last |-> "Ok"]
            /\ thread_rx' = Append(thread_rx, [type |-> "Event",
                                               n |-> event_thread.read + 1])
    /\ UNCHANGED <<kernel_vars, build_vars, proc_vars, thread_vars, main_rx, app_running,
                   app, process_list, dead_vars>>

\* an event thread that holds a reference to the sampler's per-process
\* baselines and clears them when it forwards an event
EventSend_mutant ==
    /\ event_thread.pc = "read"
    /\ event_thread.read < MaxEvents
    /\ app_running
    /\ Len(thread_rx) < MaxQueue
    /\ event_thread' = [pc |-> "read", read |-> event_thread.read + 1, last |-> "Ok"]
    /\ thread_rx' = Append(thread_rx, [type |-> "Event", n |-> event_thread.read + 1])
    /\ procstats' = [id \in {} |-> ProcStats_default]
    /\ UNCHANGED <<kernel_vars, build_vars, proc_vars, pc, cpu_total_prev, cpus_prev,
                   send_threads, thr_uptime, thread_calls, toggled, main_rx,
                   app_running, app, process_list, dead_vars>>

\* an iteration of the event thread on a terminal whose reads succeed: the
\* event is sent on the thread's clone of thread_tx, or the thread stops
\* because the receiver is dropped; the send never blocks
EventSend == EventThread(TRUE)

\* ------------------------------------------------------ App (app.rs)
\* what `ev_reader.next()` can yield: a key event of code 'q' or of another
\* code, pressed or released, another kind of event, an error, or the end
\* of the stream
AppEvents == {"press_q", "press_other", "release_q", "other", "Err", "None"}

\* every Sender of the consumer channel is dropped: the sampler thread and
\* the event thread, which main.rs hands the two clones, have ended
SendersDropped ==
    /\ pc \in {"stopped", "panicked"}
    /\ event_thread.pc = "stopped"

\* an App that quits on every key event of code 'q', pressed or released
App_run_mutant(draw_ok, branch, ev) ==
    /\ app_running
    /\ app.ret = "running"
    /\ (app.pc = "select" /\ branch = "msg") => (thread_rx # <<>> \/ SendersDropped)
    /\ LET \* the value of `app` when run goes on, and when it returns
           goes_on(a) == /\ app' = a
                         /\ UNCHANGED app_running
           returns(a) == /\ app' = [a EXCEPT !.pc = "returned"]
                         /\ app_running' = FALSE
                         /\ thread_rx' = <<>>
       IN  IF app.pc = "draw"
           THEN IF draw_ok
                THEN /\ goes_on([app EXCEPT !.pc = "select", !.last = "draw"])
                     /\ UNCHANGED thread_rx
                ELSE returns([app EXCEPT !.ret = "Err", !.last = "draw_failed"])
           ELSE IF branch = "msg"
           THEN IF thread_rx # <<>>
                THEN /\ goes_on([app EXCEPT !.pc = "draw",
                                            !.current_data = Head(thread_rx),
                                            !.last = "msg"])
                     /\ thread_rx' = Tail(thread_rx)
                ELSE returns([app EXCEPT !.ret = "Ok", !.last = "msg_closed"])
           ELSE IF ev = "None"
           THEN returns([app EXCEPT !.ret = "Ok", !.last = "event_closed"])
           ELSE IF ev \in {"press_q", "release_q"}
           THEN returns([app EXCEPT !.exit = TRUE, !.ret = "Ok", !.last = ev])
           ELSE /\ goes_on([app EXCEPT !.pc = "draw", !.last = ev])
                /\ UNCHANGED thread_rx
    /\ UNCHANGED <<kernel_vars, build_vars, proc_vars, thread_vars, main_rx,
                   event_thread, process_list, dead_vars>>

\* one step of the loop of App::run, which is at terminal.draw (app.pc =
\* "draw") or awaits select! (app.pc = "select"). At the draw, draw_ok: the
\* draw returns Ok. At select!, branch: the branch that completes ("msg" for
\* thread_rx.recv(), "event" for the event stream, which yields ev); the
\* handler of the branch and the test of `while !self.exit` belong to the
\* step. When run returns, main drops thread_rx.
App_run(draw_ok, branch, ev) ==
    /\ app_running
    /\ app.ret = "running"
    \* recv() completes with a message, or with None once the channel is
    \* empty and every Sender is dropped; otherwise it stays pending
    /\ (app.pc = "select" /\ branch = "msg") => (thread_rx # <<>> \/ SendersDropped)
    /\ LET \* the value of `app` when run goes on, and when it returns
           goes_on(a) == /\ app' = a
                         /\ UNCHANGED app_running
           returns(a) == /\ app' = [a EXCEPT !.pc = "returned"]
                         /\ app_running' = FALSE
                         /\ thread_rx' = <<>>
       IN  IF app.pc = "draw"
           THEN IF draw_ok
                THEN /\ goes_on([app EXCEPT !.pc = "select", !.last = "draw"])
                     /\ UNCHANGED thread_rx
                ELSE \* terminal.draw(..)?
                     returns([app EXCEPT !.ret = "Err", !.last = "draw_failed"])
           ELSE IF branch = "msg"
           THEN IF thread_rx # <<>>
                THEN \* Some(msg) => self.handle_msg(msg)
                     /\ goes_on([app EXCEPT !.pc = "draw",
                                            !.current_data = Head(thread_rx),
                                            !.last = "msg"])
                     /\ thread_rx' = Tail(thread_rx)
                ELSE \* None => break
                     returns([app EXCEPT !.ret = "Ok", !.last = "msg_closed"])
           ELSE IF ev = "None"
           THEN \* None => break
                returns([app EXCEPT !.ret = "Ok", !.last = "event_closed"])
           ELSE IF ev = "press_q"
           THEN \* handle_key_event: self.exit(); `while !self.exit` ends
                returns([app EXCEPT !.exit = TRUE, !.ret = "Ok", !.last = ev])
           ELSE \* Some(Err(_)) => {}, and the events handle_event ignores
                /\ goes_on([app EXCEPT !.pc = "draw", !.last = ev])
                /\ UNCHANGED thread_rx
    /\ UNCHANGED <<kernel_vars, build_vars, proc_vars, thread_vars, main_rx,
                   event_thread, process_list, dead_vars>>

\* terminal.draw returns Ok and run goes on to select!
AppDraw ==
    /\ app.pc = "draw"
    /\ App_run(TRUE, "msg", "other")

\* AppRecv taking the newest message instead of the oldest
AppRecv_mutant ==
    /\ app_running
    /\ app.pc = "select"
    /\ thread_rx # <<>>
    /\ thread_rx' = SubSeq(thread_rx, 1, Len(thread_rx) - 1)
    /\ app' = [app EXCEPT !.pc = "draw", !.current_data = thread_rx[Len(thread_rx)],
                          !.last = "msg"]
    /\ UNCHANGED <<kernel_vars, build_vars, proc_vars, thread_vars, main_rx, app_running,
                   event_thread, process_list, dead_vars>>

\* the branch `Some(msg) => self.handle_msg(msg)` of select!: the
\* application takes the next message from thread_rx and stores it
AppRecv ==
    /\ app.pc = "select"
    /\ thread_rx # <<>>
    /\ App_run(TRUE, "msg", "other")

\* App::run returns, by any of its returns: a failed draw, a stream that has
\* ended, or a press of 'q'; main drops thread_rx and main_tx
AppExit ==
    \E draw_ok \in BOOLEAN, branch \in {"msg", "event"}, ev \in AppEvents :
        /\ app.pc = "draw" => ~draw_ok
        /\ (app.pc = "select" /\ branch = "msg") => thread_rx = <<>>
        /\ (app.pc = "select" /\ branch = "event") => ev \in {"None", "press_q"}
        /\ App_run(draw_ok, branch, ev)

\* main returns once App::run has returned and the terminal is restored.
\* Both threads are detached (start_thread drops the JoinHandle) and main
\* joins neither, so the process ends with main and takes with it a thread
\* that has not returned yet, wherever it is in its loop.
MainReturn ==
    /\ app.pc = "returned"
    /\ app' = [app EXCEPT !.pc = "exited"]
    /\ pc' = IF pc \in {"stopped", "panicked"} THEN pc ELSE "killed"
    /\ event_thread' = IF event_thread.pc = "stopped" THEN event_thread
                       ELSE [event_thread EXCEPT !.pc = "killed"]
    /\ UNCHANGED <<kernel_vars, build_vars, proc_vars, procstats, cpu_total_prev,
                   cpus_prev, send_threads, thr_uptime, thread_calls, toggled,
                   thread_rx, main_rx, app_running, process_list, dead_vars>>

\* the application sends Message::SendThreads(state) on main_tx
AppSendThreads(state) ==
    /\ app_running
    /\ Len(main_rx) < MaxQueue
    /\ main_rx' = Append(main_rx, [type |-> "SendThreads", state |-> state])
    /\ UNCHANGED <<kernel_vars, build_vars, proc_vars, thread_vars, thread_rx, app_running, ui_vars,
                   dead_vars>>

\* the application sends a message that is not SendThreads on main_tx
AppSendOther ==
    /\ app_running
    /\ Len(main_rx) < MaxQueue
    /\ main_rx' = Append(main_rx, [type |-> "Event"])
    /\ UNCHANGED <<kernel_vars, build_vars, proc_vars, thread_vars, thread_rx, app_running, ui_vars,
                   dead_vars>>

\* ------------------------------------------ ProcessList (process_list.rs)
\* the order of magnitude of a value that is not NaN, signed: an infinity,
\* a multiple of 2^64 (the quotient of a wrapped difference), or a finite
\* value of the model, all of which are far below 2^64 in absolute value
Magnitude(v) ==
    LET sgn == IF v.n < 0 THEN -1 ELSE 1
    IN  IF v.kind = "inf" THEN 2 * sgn
        ELSE IF v.kind = "wrapped" THEN sgn
        ELSE 0

\* f32::partial_cmp of two values that are not NaN
FloatCmp(a, b) ==
    LET \* the sign of a - b: by magnitude, and by the fractions (of 1 or of
        \* 2^64, denominators positive) for two values of the same magnitude
        sign == IF Magnitude(a) # Magnitude(b) THEN Magnitude(a) - Magnitude(b)
                ELSE IF a.kind = "inf" THEN 0
                ELSE a.n * b.d - b.n * a.d
    IN  IF sign < 0 THEN "Less" ELSE IF sign > 0 THEN "Greater" ELSE "Equal"

\* Option<f32>::partial_cmp: None is less than every Some, and two Some
\* compare as their floats do, which gives no ordering when one is NaN
partial_cmp(a, b) ==
    IF a.kind = "none" /\ b.kind = "none" THEN "Equal"
    ELSE IF a.kind = "none" THEN "Less"
    ELSE IF b.kind = "none" THEN "Greater"
    ELSE IF a.kind = "nan" \/ b.kind = "nan" THEN "None"
    ELSE FloatCmp(a, b)

\* the closure set_data hands to sort_by
compare(a, b) ==
    LET cmp == partial_cmp(a.cpu_usage, b.cpu_usage)
    IN  IF cmp = "None" THEN "Equal"
        ELSE IF cmp = "Less" THEN "Greater"
        ELSE IF cmp = "Greater" THEN "Less"
        ELSE "Equal"

\* v with x inserted before the first element that x is Less than when
\* looking from the end: one step of a stable insertion sort
RECURSIVE insert_tail(_, _)
insert_tail(v, x) ==
    IF v = <<>> THEN <<x>>
    ELSE IF compare(x, v[Len(v)]) = "Less"
    THEN Append(insert_tail(SubSeq(v, 1, Len(v) - 1), x), v[Len(v)])
    ELSE Append(v, x)

\* the stable sort of v by compare
RECURSIVE stable_sort(_)
stable_sort(v) ==
    IF v = <<>> THEN <<>>
    ELSE insert_tail(stable_sort(SubSeq(v, 1, Len(v) - 1)), v[Len(v)])

\* compare is a total order on the elements of v: no usage is NaN
TotalOrder(v) == \A i \in DOMAIN v : v[i].cpu_usage.kind # "nan"

\* the rearrangements of v
Rearrangements(v) ==
    {[i \in DOMAIN v |-> v[f[i]]] :
        f \in {g \in [DOMAIN v -> DOMAIN v] : \A i, j \in DOMAIN v : i # j => g[i] # g[j]}}

\* the longest slice the sort of the standard library sorts by insertion
\* alone (MAX_LEN_ALWAYS_INSERTION_SORT)
MaxInsertionSortLen == 20

\* slice::sort_by(compare).  When compare is a total order the outcome is
\* the stable sort.  A slice of no more than MaxInsertionSortLen elements is
\* sorted by insertion from the left whatever compare is, which is what
\* stable_sort computes.  For a longer slice and a compare that is not a
\* total order the order is unspecified and the call may panic, leaving the
\* slice rearranged: every rearrangement is an outcome, sorted or panicked.
sort_by(v) ==
    IF TotalOrder(v) \/ Len(v) <= MaxInsertionSortLen
    THEN {[kind |-> "sorted", v |-> stable_sort(v)]}
    ELSE {[kind |-> k, v |-> w] : k \in {"sorted", "panic"}, w \in Rearrangements(v)}

\* the most records of a delivered System
MaxRecords == 3

\* the usages of the delivered records: unknown, 0 %, 100 %, the infinity
\* and NaN of a zero interval, and the quotient of a wrapped difference of
\* one tick over one cadence interval
SortUsages ==
    {None, Fin(0, 1), Fin(100, 1), PosInf, NaN,
     Wrapped(-1, 100 * CsPerSecond, WaitCs * TicksPerSecond)}

\* the process lists delivered to set_data, records numbered in list order
Delivered ==
    UNION {{[i \in 1..n |-> [pid |-> i, cpu_usage |-> u[i]]] : u \in [1..n -> SortUsages]} :
             n \in 0..MaxRecords}

\* ProcessList::set_data; out: the outcome of the sort
set_data(data, out) ==
    /\ process_list.state # "panicked"
    /\ out \in sort_by(data)
    /\ process_list' = [state |-> IF out.kind = "panic" THEN "panicked" ELSE "set",
                        delivered |-> data,
                        processes |-> out.v]
    /\ UNCHANGED <<kernel_vars, build_vars, proc_vars, thread_vars, thread_rx, main_rx,
                   app_running, event_thread, app, dead_vars>>

\* ------------------------------------------------ Proc (proc/mod.rs)
\* the builds whose sampler is Proc
ProcSamplers == {"Proc_mod", "Proc_prev_cpu"}

\* self.prev_cpus.calculate(..): the PrevCpuMap impl the build links
Proc_calculate(self, pid, up, cpu_used, ticks) ==
    IF sampler = "Proc_mod"
    THEN mod_PrevCpuMap_calculate(self, pid, up, cpu_used, ticks, overflow_checks)
    ELSE PrevCpuMap_calculate(self, pid, up, cpu_used, ticks, overflow_checks)

\* the state the `for entry in dir_iter` loop of get_system threads through
ProcLoopStart(map, dead) ==
    [map |-> map, dead |-> dead, infos |-> <<>>,
     tc |-> [tasks |-> 0, threads |-> 0, kernel_threads |-> 0],
     calls |-> NoCalls, panicked |-> FALSE, err |-> FALSE]

\* The u32 thread counter is kept as its two's complement representative:
\* a negative value v stands for the u32 v + 2^32, so that wrapping u32
\* addition and subtraction are integer addition and subtraction and a
\* counter is wrapped exactly when its representative is negative.
\* Proc::read_process_info (ProcessInfo::read of proc/process_info.rs for a
\* /proc/<pid> entry, where pid == parent) and the accounting of get_system
read_process_info(acc, pid, up, unreadable, malformed, no_cmdline) ==
    IF pid \in unreadable THEN acc
    ELSE IF pid = malformed THEN [acc EXCEPT !.err = TRUE]
    ELSE LET cpu_used == ProcessTicks(pid)
             r == Proc_calculate(acc.map, pid, up, cpu_used, TicksPerSecond)
             had == pid \in DOMAIN acc.map
             old == IF had THEN acc.map[pid] ELSE [uptime |-> 0, cpu_used |-> 0]
             \* read_to_string(cmdline).unwrap_or_default() is empty
             cmdline == IF pid \in no_cmdline \/ task[pid].kthread THEN "" ELSE "cmd"
             process_type == IF cmdline = "" THEN "KernelThread" ELSE "Task"
             num_threads == Stat_num_threads(pid)
             \* info.num_threads - 1, a u32: underflows for num_threads = 0
             underflow == num_threads = 0
             calls == Put(acc.calls, pid,
                          CallRecord(had, old.uptime, old.cpu_used, up, cpu_used,
                                     r.ret, pid \in acc.dead))
         IN  IF r.ret.kind = "panic"
             THEN [acc EXCEPT !.panicked = TRUE, !.calls = calls]
             ELSE IF underflow /\ overflow_checks
             THEN \* attempt to subtract with overflow
                  [acc EXCEPT !.panicked = TRUE, !.map = r.map,
                              !.dead = acc.dead \ {pid}, !.calls = calls]
             ELSE [acc EXCEPT
                     !.map = r.map,
                     !.dead = acc.dead \ {pid},
                     !.calls = calls,
                     !.tc = [tasks |-> @.tasks
                                       + (IF process_type = "KernelThread" THEN 0 ELSE 1),
                             kernel_threads |-> @.kernel_threads
                                       + (IF process_type = "KernelThread" THEN 1 ELSE 0),
                             threads |-> @.threads + (num_threads - 1)],
                     !.infos = Append(acc.infos,
                                      [pid |-> pid, cpu_usage |-> r.ret,
                                       cmdline |-> cmdline,
                                       process_type |-> process_type,
                                       num_threads |-> num_threads])]

RECURSIVE proc_loop(_, _, _, _, _, _)
proc_loop(acc, pids, up, unreadable, malformed, no_cmdline) ==
    IF pids = <<>> \/ acc.panicked \/ acc.err THEN acc
    ELSE proc_loop(read_process_info(acc, Head(pids), up, unreadable, malformed,
                                     no_cmdline),
                   Tail(pids), up, unreadable, malformed, no_cmdline)

\* a pairing that aligns the two lists at their last elements
RECURSIVE ZipCpuTime_mutant(_, _)
ZipCpuTime_mutant(news, olds) ==
    IF news = <<>> \/ olds = <<>> THEN <<>>
    ELSE ZipCpuTime_mutant(SubSeq(news, 1, Len(news) - 1),
                           SubSeq(olds, 1, Len(olds) - 1))
         \o <<CpuTime_cpu_usage(news[Len(news)], olds[Len(olds)], overflow_checks)>>

\* cpu_time.iter().zip(self.prev_cpu_time.iter()).map(|(new, old)| new.cpu_usage(old))
RECURSIVE ZipCpuTime(_, _)
ZipCpuTime(news, olds) ==
    IF news = <<>> \/ olds = <<>> THEN <<>>
    ELSE <<CpuTime_cpu_usage(Head(news), Head(olds), overflow_checks)>>
         \o ZipCpuTime(Tail(news), Tail(olds))

\* what can fail in one get_system call (at most one source per call)
ProcFailures ==
    {"none", "read_dir", "uptime", "stat_parse", "loadavg", "proc_stat", "cputime"}

NoSystem == [processes |-> <<>>, num_threads |-> [tasks |-> 0, threads |-> 0,
                                                  kernel_threads |-> 0],
             uptime |-> 0, load_avg |-> "default", cpu_usage |-> <<>>]
Ret(kind, err, sys) == [kind |-> kind, err |-> err, sys |-> sys]

\* Proc::new()
ProcInit ==
    /\ prev_cpus = [id \in {} |-> 0]
    /\ prev_cpu_time = <<>>
    /\ get_system_ret = Ret("NotCalled", "", NoSystem)
    /\ prev_cpus_dead = {}
    /\ proc_calls = NoCalls
    /\ stat_parsed = [kind |-> "NotCalled", utime |-> 0, stime |-> 0, cpu_used |-> 0]

\* a get_system that restores the per-process store when the loop fails
get_system_rollback(fail, unreadable, malformed, no_cmdline) ==
    /\ sampler \in ProcSamplers
    /\ get_system_ret.kind # "Panic"
    /\ (fail = "stat_parse") = (malformed # 0)
    /\ IF fail = "read_dir"
       THEN /\ get_system_ret' = Ret("Err", "Io", NoSystem)
            /\ UNCHANGED <<prev_cpus, prev_cpu_time, prev_cpus_dead, proc_calls>>
       ELSE IF fail = "uptime"
       THEN /\ get_system_ret' = Ret("Err", "Uptime", NoSystem)
            /\ UNCHANGED <<prev_cpus, prev_cpu_time, prev_cpus_dead, proc_calls>>
       ELSE LET loop == proc_loop(ProcLoopStart(prev_cpus, prev_cpus_dead),
                                  SortedSeq(Leaders), uptime, unreadable, malformed,
                                  no_cmdline)
                cleaned == PrevCpuMap_cleanup(loop.map, uptime)
                cleaned_dead == loop.dead \cap DOMAIN cleaned
                cpu_time_now == cpu_time
                cpu_usage == IF prev_cpu_time # <<>>
                             THEN ZipCpuTime(cpu_time_now, prev_cpu_time)
                             ELSE <<>>
                cpu_panicked == \E i \in DOMAIN cpu_usage : cpu_usage[i].kind = "panic"
            IN  /\ proc_calls' = loop.calls
                /\ IF loop.panicked
                   THEN /\ get_system_ret' = Ret("Panic", "", NoSystem)
                        /\ prev_cpus' = loop.map
                        /\ prev_cpus_dead' = loop.dead
                        /\ UNCHANGED prev_cpu_time
                   ELSE IF loop.err
                   THEN /\ get_system_ret' = Ret("Err", "StatParsing", NoSystem)
                        /\ prev_cpus' = prev_cpus
                        /\ prev_cpus_dead' = prev_cpus_dead
                        /\ UNCHANGED prev_cpu_time
                   ELSE /\ prev_cpus' = cleaned
                        /\ prev_cpus_dead' = cleaned_dead
                        /\ IF fail = "loadavg"
                           THEN /\ get_system_ret' = Ret("Err", "LoadAvg", NoSystem)
                                /\ UNCHANGED prev_cpu_time
                           ELSE IF fail = "proc_stat"
                           THEN \* fs::read_to_string("/proc/stat").unwrap()
                                /\ get_system_ret' = Ret("Panic", "", NoSystem)
                                /\ UNCHANGED prev_cpu_time
                           ELSE IF fail = "cputime"
                           THEN /\ get_system_ret' = Ret("Err", "CpuTime", NoSystem)
                                /\ UNCHANGED prev_cpu_time
                           ELSE IF cpu_panicked
                           THEN /\ get_system_ret' = Ret("Panic", "", NoSystem)
                                /\ UNCHANGED prev_cpu_time
                           ELSE /\ prev_cpu_time' = cpu_time_now
                                /\ get_system_ret' =
                                     Ret("Ok", "",
                                         [processes |-> loop.infos,
                                          num_threads |-> loop.tc,
                                          uptime |-> uptime,
                                          load_avg |-> "read",
                                          cpu_usage |-> cpu_usage])
    /\ UNCHANGED <<kernel_vars, build_vars, thread_vars, chan_vars, procstats_dead,
                   stat_parsed>>

\* Proc::get_system
get_system(fail, unreadable, malformed, no_cmdline) ==
    /\ sampler \in ProcSamplers
    /\ get_system_ret.kind # "Panic"
    /\ (fail = "stat_parse") = (malformed # 0)
    /\ IF fail = "read_dir"
       THEN /\ get_system_ret' = Ret("Err", "Io", NoSystem)
            /\ UNCHANGED <<prev_cpus, prev_cpu_time, prev_cpus_dead, proc_calls>>
       ELSE IF fail = "uptime"
       THEN /\ get_system_ret' = Ret("Err", "Uptime", NoSystem)
            /\ UNCHANGED <<prev_cpus, prev_cpu_time, prev_cpus_dead, proc_calls>>
       ELSE LET loop == proc_loop(ProcLoopStart(prev_cpus, prev_cpus_dead),
                                  SortedSeq(Leaders), uptime, unreadable, malformed,
                                  no_cmdline)
                cleaned == PrevCpuMap_cleanup(loop.map, uptime)
                cleaned_dead == loop.dead \cap DOMAIN cleaned
                cpu_time_now == cpu_time
                cpu_usage == IF prev_cpu_time # <<>>
                             THEN ZipCpuTime(cpu_time_now, prev_cpu_time)
                             ELSE <<>>
                cpu_panicked == \E i \in DOMAIN cpu_usage : cpu_usage[i].kind = "panic"
            IN  /\ proc_calls' = loop.calls
                /\ IF loop.panicked
                   THEN /\ get_system_ret' = Ret("Panic", "", NoSystem)
                        /\ prev_cpus' = loop.map
                        /\ prev_cpus_dead' = loop.dead
                        /\ UNCHANGED prev_cpu_time
                   ELSE IF loop.err
                   THEN /\ get_system_ret' = Ret("Err", "StatParsing", NoSystem)
                        /\ prev_cpus' = loop.map
                        /\ prev_cpus_dead' = loop.dead
                        /\ UNCHANGED prev_cpu_time
                   ELSE /\ prev_cpus' = cleaned
                        /\ prev_cpus_dead' = cleaned_dead
                        /\ IF fail = "loadavg"
                           THEN /\ get_system_ret' = Ret("Err", "LoadAvg", NoSystem)
                                /\ UNCHANGED prev_cpu_time
                           ELSE IF fail = "proc_stat"
                           THEN \* fs::read_to_string("/proc/stat").unwrap()
                                /\ get_system_ret' = Ret("Panic", "", NoSystem)
                                /\ UNCHANGED prev_cpu_time
                           ELSE IF fail = "cputime"
                           THEN /\ get_system_ret' = Ret("Err", "CpuTime", NoSystem)
                                /\ UNCHANGED prev_cpu_time
                           ELSE IF cpu_panicked
                           THEN /\ get_system_ret' = Ret("Panic", "", NoSystem)
                                /\ UNCHANGED prev_cpu_time
                           ELSE /\ prev_cpu_time' = cpu_time_now
                                /\ get_system_ret' =
                                     Ret("Ok", "",
                                         [processes |-> loop.infos,
                                          num_threads |-> loop.tc,
                                          uptime |-> uptime,
                                          load_avg |-> "read",
                                          cpu_usage |-> cpu_usage])
    /\ UNCHANGED <<kernel_vars, build_vars, thread_vars, chan_vars, procstats_dead,
                   stat_parsed>>

\* ------------------------------------ CpuInfoWidget (cpu_info_widget.rs)
\* the cells of one CPU entry of the widget
COL_SIZE == 12

\* v.chunks(n), n > 0: the consecutive pieces of v of n elements each, the
\* last one shorter when n does not divide the length
RECURSIVE chunks(_, _)
chunks(v, n) ==
    IF v = <<>> THEN <<>>
    ELSE IF Len(v) <= n THEN <<v>>
    ELSE <<SubSeq(v, 1, n)>> \o chunks(SubSeq(v, n + 1, Len(v)), n)

\* CpuInfoWidget::new(data, width), the values it takes from data.cpu_usage:
\* the average, and the lines of the CPUs, each line the (index, percentage)
\* pairs of up to width / COL_SIZE CPUs; the styles and the text width of
\* the lines are not represented
CpuInfoWidget_new(cpu_usage, width) ==
    LET cols == width \div COL_SIZE
        \* cpu_percents[1..cpu_percents.len()].iter().enumerate()
        enumerated == [k \in 1..(Len(cpu_usage.v) - 1) |->
                         [i |-> k - 1, p |-> cpu_usage.v[k + 1]]]
        unwound == [kind |-> "panic", average |-> Panic, cpu_lines |-> <<>>]
    IN  IF cpu_usage.kind # "some"
        THEN [kind |-> "ok", average |-> Fin(0, 1),
              cpu_lines |-> <<[text |-> "Calculating...", cpus |-> <<>>]>>]
        ELSE IF cpu_usage.v = <<>>
        THEN \* slice index starts at 1 but ends at 0
             unwound
        ELSE IF cols = 0
        THEN \* chunks: chunk size must be non-zero
             unwound
        ELSE [kind |-> "ok", average |-> cpu_usage.v[1],
              cpu_lines |-> [l \in DOMAIN chunks(enumerated, cols) |->
                               [text |-> "", cpus |-> chunks(enumerated, cols)[l]]]]

\* ------------------------------------------------ Stat (proc/stat.rs)
\* utime and stime are counted in units of 2^30 ticks: the kernel prints
\* them as unsigned long, Stat::parse reads them as u32, and 2^32 ticks are
\* U32Units units, so that a count of units fits a u32 exactly when it is
\* below U32Units and a u32 sum wraps modulo U32Units.
U32Units == 4

\* the largest utime or stime of the samples, in units
MaxUnits == 5

StatTicks == 0..MaxUnits

\* Stat::parse, fields utime and stime and the sum cpu_used
Stat_parse(utime, stime, checks) ==
    IF utime >= U32Units \/ stime >= U32Units
    THEN \* "Failed to parse utime/stime to u32"
         [kind |-> "Err", utime |-> utime, stime |-> stime, cpu_used |-> 0]
    ELSE IF utime + stime < U32Units
    THEN [kind |-> "Ok", utime |-> utime, stime |-> stime, cpu_used |-> utime + stime]
    ELSE IF checks
    THEN \* attempt to add with overflow
         [kind |-> "Panic", utime |-> utime, stime |-> stime, cpu_used |-> 0]
    ELSE [kind |-> "Ok", utime |-> utime, stime |-> stime,
          cpu_used |-> (utime + stime) % U32Units]

\* one stat record is parsed
ParseStat(utime, stime) ==
    /\ sampler \in ProcSamplers
    /\ stat_parsed.kind # "Panic"
    /\ stat_parsed' = Stat_parse(utime, stime, overflow_checks)
    /\ UNCHANGED <<kernel_vars, build_vars, prev_cpus, prev_cpu_time, get_system_ret,
                   proc_calls, thread_vars, chan_vars, dead_vars>>

\* ------------------------------------------- the calculators on their own
\* the ticks one core accounts in one cadence interval
TicksPerInterval == (WaitCs * TicksPerSecond) \div CsPerSecond

\* the most cores a process keeps busy
MaxCores == 2

\* the samples a calculator is given: a timestamp, and cumulative ticks of
\* up to MaxCores cores busy for an interval
CalcTimes == {BootUptime + k * WaitCs : k \in 0..MaxClockTicks}
CalcTicks == {k * TicksPerInterval + j : k \in 0..MaxCores, j \in 0..MaxTicks}

\* one call of the per-process calculator of the build, with its history
Calculate(id, t, c) ==
    /\ \A id2 \in DOMAIN proc_calls : proc_calls[id2].ret.kind # "panic"
    /\ \A id2 \in DOMAIN thread_calls : thread_calls[id2].ret.kind # "panic"
    /\ IF sampler \in ProcSamplers
       THEN LET r == Proc_calculate(prev_cpus, id, t, c, TicksPerSecond)
                had == id \in DOMAIN prev_cpus
                old == IF had THEN prev_cpus[id] ELSE [uptime |-> 0, cpu_used |-> 0]
            IN  /\ prev_cpus' = r.map
                /\ proc_calls' = Put(NoCalls, id,
                                     CallRecord(had, old.uptime, old.cpu_used, t, c,
                                                r.ret, FALSE))
                /\ UNCHANGED <<prev_cpu_time, get_system_ret, stat_parsed, thread_vars>>
       ELSE LET r == ProcStatsHashMap_cpu_usage(procstats, id, c, t, TicksPerSecond,
                                               overflow_checks)
                had == id \in DOMAIN procstats
                old == IF had THEN procstats[id] ELSE ProcStats_default
            IN  /\ procstats' = r.map
                /\ thread_calls' = Put(NoCalls, id,
                                       CallRecord(had, old.last_update, old.used_time,
                                                  t, c, r.ret, FALSE))
                /\ UNCHANGED <<pc, cpu_total_prev, cpus_prev, send_threads,
                               thr_uptime, toggled, proc_vars>>
    /\ UNCHANGED <<kernel_vars, build_vars, chan_vars, dead_vars>>

\* ----------------------------------------------------- specifications
BuildInit == overflow_checks \in BOOLEAN

\* the program of main.rs: thread_main and the application
Init ==
    /\ KernelInit /\ BuildInit /\ ProcInit /\ ThreadInit /\ ChanInit
    /\ sampler = "thread_main"

\* a program that calls Proc::get_system
InitProc ==
    /\ KernelInit /\ BuildInit /\ ProcInit /\ ThreadInit /\ ChanInit
    /\ sampler \in ProcSamplers

\* either program
InitCpu ==
    /\ KernelInit /\ BuildInit /\ ProcInit /\ ThreadInit /\ ChanInit
    /\ sampler \in ProcSamplers \cup {"thread_main"}

\* the kernel's steps leave the samplers and the application alone
Tick == ClockTick /\ UNCHANGED <<build_vars, proc_vars, thread_vars, chan_vars>>
RunTask == \E id \in Ids : Run(id) /\ UNCHANGED <<build_vars, proc_vars, thread_vars, chan_vars>>
SpawnProcess ==
    \E id \in Ids : Spawn(id, FALSE) /\ UNCHANGED <<build_vars, proc_vars, thread_vars, chan_vars>>
CloneThread ==
    \E p \in Ids, id \in Ids :
        Clone(p, id) /\ UNCHANGED <<build_vars, proc_vars, thread_vars, chan_vars>>
ExitProcess == \E p \in Ids : Exit(p) /\ UNCHANGED <<build_vars, proc_vars, thread_vars, chan_vars>>
CpuHotplug ==
    \/ CpuOnline /\ UNCHANGED <<build_vars, proc_vars, thread_vars, chan_vars>>
    \/ CpuOffline /\ UNCHANGED <<build_vars, proc_vars, thread_vars, chan_vars>>
ReleaseProcess ==
    \E p \in Ids : Release(p) /\ UNCHANGED <<build_vars, proc_vars, thread_vars, chan_vars>>
CpuAccount ==
    \E k \in 1..NumCpus, cat \in Categories :
        CpuTick(k, cat) /\ UNCHANGED <<build_vars, proc_vars, thread_vars, chan_vars>>

IoWaitRise ==
    \E k \in 1..NumCpus :
        CpuTick(k, "iowait") /\ UNCHANGED <<build_vars, proc_vars, thread_vars, chan_vars>>
IoWaitDrop ==
    \E k \in 1..NumCpus :
        CpuTickBack(k) /\ UNCHANGED <<build_vars, proc_vars, thread_vars, chan_vars>>

SpawnAny ==
    \E id \in Ids, kthread \in BOOLEAN :
        Spawn(id, kthread) /\ UNCHANGED <<build_vars, proc_vars, thread_vars, chan_vars>>

\* the application has taken every Snapshot sent so far
Drained == thread_rx = <<>>

\* thread_main and the application, on a machine whose one process runs,
\* with any one source of a pass unreadable; the application keeps up with
\* the sampler
Next ==
    \/ Tick
    \/ RunTask
    \/ \E fail \in ThreadFailures : Drained /\ ThreadSample(fail, {}, {})
    \/ ThreadWait
    \/ AppDraw
    \/ AppRecv
    \/ \E state \in BOOLEAN : main_rx = <<>> /\ AppSendThreads(state)
    \/ AppExit

Spec == Init /\ [][Next]_vars

\* Proc::get_system called again and again while processes come and go
NextProc ==
    \/ Tick
    \/ RunTask
    \/ SpawnProcess
    \/ CloneThread
    \/ ExitProcess
    \/ \E unreadable \in SUBSET Ids : get_system("none", unreadable, 0, {})

SpecProc == InitProc /\ [][NextProc]_vars

\* either sampler on a machine whose CPUs account time to every category
NextCpu ==
    \/ Tick
    \/ CpuAccount
    \/ get_system("none", {}, 0, {})
    \/ Drained /\ ThreadSample("none", {}, {})
    \/ ThreadWait
    \/ AppDraw
    \/ AppRecv
    \/ AppExit

SpecCpu == InitCpu /\ [][NextCpu]_vars

\* thread_main, the event thread and the application on the two channels;
\* every source is readable and the processes are idle
SamplerStep == ThreadSample("none", {}, {}) \/ ThreadWait

NextChan ==
    \/ Tick
    \/ SamplerStep
    \/ EventSend
    \/ AppDraw
    \/ AppRecv
    \/ \E state \in BOOLEAN : AppSendThreads(state)
    \/ AppExit

SpecChan == Init /\ [][NextChan]_vars

\* thread_main and an application that draws, receives and returns, after
\* which main returns and the process ends.  While the process lives the
\* sampler thread is scheduled and recv_timeout returns (weak fairness of
\* its steps); nothing makes main wait for it.
NextCancel ==
    \/ Tick
    \/ SamplerStep
    \/ AppDraw
    \/ AppRecv
    \/ AppExit
    \/ MainReturn

SpecCancel == Init /\ [][NextCancel]_vars /\ WF_vars(SamplerStep)

\* Proc::get_system called again and again on a machine whose /proc files
\* can be unreadable or malformed, one source per call
NextErr ==
    \/ Tick
    \/ RunTask
    \/ CloneThread
    \/ \E fail \in ProcFailures, malformed \in {0} \cup Leaders :
          get_system(fail, {}, malformed, {})

SpecErr == InitProc /\ [][NextErr]_vars

\* either sampler on a machine with user processes, their threads and kernel
\* threads, where stat and cmdline of a process can be unreadable (in a
\* pass of thread_main, one of the two kinds of file); the application
\* switches between process mode and thread mode, each message asking for
\* the other mode once the previous one has been taken
NextTypes ==
    \/ Tick
    \/ SpawnAny
    \/ CloneThread
    \/ \E unreadable \in SUBSET Ids, no_cmdline \in SUBSET Ids :
          get_system("none", unreadable, 0, no_cmdline)
    \/ \E unreadable \in SUBSET Ids, no_cmdline \in SUBSET Ids :
          /\ unreadable = {} \/ no_cmdline = {}
          /\ Drained /\ ThreadSample("none", unreadable, no_cmdline)
    \/ ThreadWait
    \/ AppDraw
    \/ AppRecv
    \/ main_rx = <<>> /\ AppSendThreads(~send_threads)

SpecTypes == InitCpu /\ [][NextTypes]_vars

\* the loop of thread_main with any one of its sources unreadable in a pass,
\* the event thread and an application that receives and exits
NextPass ==
    \/ Tick
    \/ \E fail \in ThreadFailures : ThreadSample(fail, {}, {})
    \/ ThreadWait
    \/ EventSend
    \/ AppDraw
    \/ AppRecv
    \/ AppExit

SpecPass == Init /\ [][NextPass]_vars

\* either sampler next to the event thread and the application
NextOwn ==
    \/ Tick
    \/ RunTask
    \/ get_system("none", {}, 0, {})
    \/ SamplerStep
    \/ EventSend
    \/ AppDraw
    \/ AppRecv
    \/ \E state \in BOOLEAN : main_rx = <<>> /\ AppSendThreads(state)
    \/ AppExit

SpecOwn == InitCpu /\ [][NextOwn]_vars

\* either sampler on a machine whose iowait counter rises and falls
NextRegress ==
    \/ Tick
    \/ IoWaitRise
    \/ IoWaitDrop
    \/ get_system("none", {}, 0, {})
    \/ Drained /\ ThreadSample("none", {}, {})
    \/ ThreadWait
    \/ AppDraw
    \/ AppRecv

SpecRegress == InitCpu /\ [][NextRegress]_vars

\* the per-process calculator of the build called with any identity,
\* timestamp and cumulative ticks
NextCalc == \E id \in Ids, t \in CalcTimes, c \in CalcTicks : Calculate(id, t, c)

SpecCalc == InitCpu /\ [][NextCalc]_vars

\* Stat::parse given the stat records of processes with any CPU time
NextStat == \E utime \in StatTicks, stime \in StatTicks : ParseStat(utime, stime)

SpecStat == InitProc /\ [][NextStat]_vars

\* thread_main and an application that sends SendThreads and other messages
\* on the control channel while the processes run
NextToggle ==
    \/ Tick
    \/ RunTask
    \/ Drained /\ ThreadSample("none", {}, {})
    \/ ThreadWait
    \/ AppDraw
    \/ AppRecv
    \/ \E state \in BOOLEAN : AppSendThreads(state)
    \/ AppSendOther

SpecToggle == Init /\ [][NextToggle]_vars

\* the failures get_system can meet once its process loop has started and
\* that it returns as an error
PassFailures == {"none", "stat_parse", "loadavg", "cputime"}

\* get_system with the failures of a started pass, over processes that run,
\* start and exit
NextRollback ==
    \/ Tick
    \/ RunTask
    \/ SpawnProcess
    \/ ExitProcess
    \/ \E fail \in PassFailures, malformed \in {0} \cup Leaders :
          get_system(fail, {}, malformed, {})

\* a program that calls the get_system of proc/mod.rs
InitRollback == InitProc /\ sampler = "Proc_mod"

SpecRollback == InitRollback /\ [][NextRollback]_vars

\* the samplers in process mode over processes that start, gain threads,
\* are released and exit
NextRelease ==
    \/ Tick
    \/ SpawnProcess
    \/ CloneThread
    \/ ReleaseProcess
    \/ ExitProcess
    \/ \E unreadable \in SUBSET Ids : get_system("none", unreadable, 0, {})
    \/ \E unreadable \in SUBSET Ids : Drained /\ ThreadSample("none", unreadable, {})
    \/ ThreadWait
    \/ AppDraw
    \/ AppRecv

SpecRelease == InitCpu /\ [][NextRelease]_vars

\* the samplers over CPUs that account time and go online and offline
NextHotplug ==
    \/ Tick
    \/ IoWaitRise
    \/ CpuHotplug
    \/ get_system("none", {}, 0, {})
    \/ Drained /\ ThreadSample("none", {}, {})
    \/ ThreadWait
    \/ AppDraw
    \/ AppRecv

SpecHotplug == InitCpu /\ [][NextHotplug]_vars

\* the event thread, the sampler and a consumer that receives and exits
NextEvent ==
    \/ \E ok \in BOOLEAN : EventThread(ok)
    \/ ThreadSample("none", {}, {})
    \/ ThreadWait
    \/ AppDraw
    \/ AppRecv
    \/ AppExit

SpecEvent == Init /\ [][NextEvent]_vars

\* the sampler and the event thread, which can stop, and the loop of
\* App::run
NextApp ==
    \/ Tick
    \/ \E fail \in {"none", "uptime"} : ThreadSample(fail, {}, {})
    \/ ThreadWait
    \/ \E ok \in BOOLEAN : EventThread(ok)
    \/ \E draw_ok \in BOOLEAN, branch \in {"msg", "event"}, ev \in AppEvents :
          App_run(draw_ok, branch, ev)

SpecApp == Init /\ [][NextApp]_vars

\* ProcessList::set_data on the delivered lists
NextSort ==
    \E data \in Delivered : \E out \in sort_by(data) : set_data(data, out)

SpecSort == Init /\ [][NextSort]_vars

\* ------------------------------------------------------------- claims
\* the calculator calls of the last pass of either sampler
Calls ==
    {proc_calls[id] : id \in DOMAIN proc_calls}
    \cup {thread_calls[id] : id \in DOMAIN thread_calls}

\* C1. First-observation rule: a call for an identity the store does not
\* hold returns "unknown" (None), never a number, and a completed pass has
\* stored a baseline for that identity.
FirstObservationUnknown ==
    /\ \A c \in Calls : ~c.had => c.ret = None
    /\ get_system_ret.kind = "Ok" =>
          \A id \in DOMAIN proc_calls : id \in DOMAIN prev_cpus
    /\ pc = "wait" => \A id \in DOMAIN thread_calls : id \in DOMAIN procstats

\* 100 * dc / (dt seconds * ticks_per_second), dt in centiseconds
RulePercent(dc, dt) == fdiv(100 * dc * CsPerSecond, dt * TicksPerSecond)

\* C2. Monotonic-delta rule: a call that finds a baseline (t0, c0) and is
\* given (t1, c1) with t1 > t0 and c1 >= c0 returns
\* 100 * (c1 - c0) / ((t1 - t0) * ticks_per_second).
MonotonicDeltaRule ==
    \A c \in Calls : (c.had /\ c.dt > 0 /\ c.dc >= 0) => c.ret = RulePercent(c.dc, c.dt)

\* C3. Counter-reset defense: a call that finds a baseline c0 and is given
\* c1 < c0 returns 0 or "unknown": not a negative value, not a wrapped-around
\* one, and it does not panic.
CounterResetDefense ==
    \A c \in Calls : (c.had /\ c.dc < 0) => c.ret \in {Fin(0, 1), None}

\* C4. Zero-interval defense: a call that finds a baseline taken at t0 and is
\* given t1 <= t0 returns "unknown" (no division by an interval <= 0).
ZeroIntervalDefense ==
    \A c \in Calls : (c.had /\ c.dt <= 0) => c.ret = None

\* C5. Eviction exactness: after the eviction step of a pass the store holds
\* exactly the identities routed through the calculator in that pass.
EvictionExact ==
    /\ get_system_ret.kind = "Ok" => DOMAIN prev_cpus = DOMAIN proc_calls
    /\ pc = "wait" => DOMAIN procstats = DOMAIN thread_calls

\* C6. Eviction then reappearance: an identity that was not routed through
\* the calculator in the previous (completed) pass and is routed in this one
\* is a first observation: no older baseline is used for it.
EvictionThenReappearance ==
    [][/\ (proc_vars' # proc_vars /\ get_system_ret.kind = "Ok") =>
            \A id \in DOMAIN proc_calls' \ DOMAIN proc_calls : ~proc_calls'[id].had
       /\ (pc = "sample" /\ pc' = "wait" /\ thr_uptime # 0) =>
            \A id \in DOMAIN thread_calls' \ DOMAIN thread_calls :
                ~thread_calls'[id].had]_vars

\* C7. Identifier reuse: no call computes against a baseline that was
\* sampled from another task (one that exited and whose identifier the
\* task sampled now took over).
IdentifierReuseCleanBaseline ==
    \A c \in Calls : c.same_task

\* C8. Mode-switch reset: a SendThreads that changes the mode empties the
\* per-process store before the next pass, and every identity observed in
\* the pass that follows reports "unknown".
ModeSwitchReset ==
    /\ (toggled /\ pc = "sample") => DOMAIN procstats = {}
    /\ (toggled /\ pc = "wait") =>
          \A id \in DOMAIN thread_calls : thread_calls[id].ret = None

\* work and total of one line of system counters, every category once
WorkCategories == {"user", "system", "nice", "irq", "softirq"}
RuleWork(line) == SumCats(line, WorkCategories)
RuleTotal(line) == SumCats(line, Categories)
AggregateRule(new, old) ==
    fdiv(100 * (RuleWork(new) - RuleWork(old)), RuleTotal(new) - RuleTotal(old))

NonDecreasing(new, old) == \A c \in Categories : new[c] >= old[c]
Advanced(new, old) == RuleTotal(new) > RuleTotal(old)
InRange(p) == p.kind = "fin" /\ FinGeq(p, 0) /\ FinLeq(p, 100)

\* a get_system call has returned Ok in this step
GetSystemPass == proc_vars' # proc_vars /\ get_system_ret'.kind = "Ok"
\* thread_main has sent a Snapshot in this step
ThreadPass == pc = "sample" /\ pc' = "wait"
SentSnapshot == thread_rx'[Len(thread_rx')].sys

\* C9. Aggregate formula: the aggregate and every per-CPU percentage a pass
\* reports for two consecutive system samples (the total having advanced)
\* equals 100 * (work1 - work0) / (total1 - total0), with work =
\* user+system+nice+irq+softirq and total = work+idle+iowait+steal+guest+
\* guest_nice, every category counted once.
AggregateFormula ==
    [][/\ GetSystemPass =>
            \A i \in DOMAIN get_system_ret'.sys.cpu_usage :
                Advanced(cpu_time[i], prev_cpu_time[i]) =>
                    get_system_ret'.sys.cpu_usage[i]
                        = AggregateRule(cpu_time[i], prev_cpu_time[i])
       /\ ThreadPass =>
            /\ (SentSnapshot.average_cpu # None
                    /\ Advanced(cpu_time[1], cpu_total_prev)) =>
                  SentSnapshot.average_cpu = AggregateRule(cpu_time[1], cpu_total_prev)
            /\ \A i \in DOMAIN SentSnapshot.cpu_percents.v :
                  Advanced(cpu_time[1 + i], cpus_prev[i]) =>
                      SentSnapshot.cpu_percents.v[i]
                          = AggregateRule(cpu_time[1 + i], cpus_prev[i])]_vars

\* C10. Every aggregate and per-CPU percentage a pass places in its result
\* lies in [0, 100] when, between the two system samples it is computed
\* from, no category counter decreased and the total advanced.
PercentagesInRange ==
    [][/\ GetSystemPass =>
            \A i \in DOMAIN get_system_ret'.sys.cpu_usage :
                (NonDecreasing(cpu_time[i], prev_cpu_time[i])
                    /\ Advanced(cpu_time[i], prev_cpu_time[i])) =>
                    InRange(get_system_ret'.sys.cpu_usage[i])
       /\ ThreadPass =>
            /\ (SentSnapshot.average_cpu # None
                    /\ NonDecreasing(cpu_time[1], cpu_total_prev)
                    /\ Advanced(cpu_time[1], cpu_total_prev)) =>
                  InRange(SentSnapshot.average_cpu)
            /\ \A i \in DOMAIN SentSnapshot.cpu_percents.v :
                  (NonDecreasing(cpu_time[1 + i], cpus_prev[i])
                      /\ Advanced(cpu_time[1 + i], cpus_prev[i])) =>
                      InRange(SentSnapshot.cpu_percents.v[i])]_vars

\* a Snapshot in flight holds an aggregate and a per-CPU percentage strictly
\* between 0 and 100, computed from two samples between which work and
\* total both advanced
Busy(p) == p.kind = "fin" /\ p.n > 0 /\ p.n < 100 * p.d
PercentagesInRange_witness ==
    \E m \in DOMAIN thread_rx :
        /\ Busy(thread_rx[m].sys.average_cpu)
        /\ \E i \in DOMAIN thread_rx[m].sys.cpu_percents.v :
              Busy(thread_rx[m].sys.cpu_percents.v[i])

\* C11. On a pass that finds no previous aggregate sample stored, the
\* system-wide percentage and the per-CPU list of the result are both absent
\* (None): not zero, not an empty list.
FirstPassPercentagesAbsent ==
    [][/\ (GetSystemPass /\ prev_cpu_time = <<>>) =>
            get_system_ret'.sys.cpu_usage = NoneVec
       /\ (ThreadPass /\ cpus_prev = <<>>) =>
            /\ SentSnapshot.average_cpu = None
            /\ SentSnapshot.cpu_percents = NoneVec]_vars

\* C12. The sampling loop is in its terminal Stopped state only when the
\* consumer has closed the delivery channel: no unreadable source of a pass,
\* an unreadable uptime included, stops the loop.
StoppedOnlyByClosedChannel == pc = "stopped" => ~app_running

\* a step of the sampler thread itself: its position changes, and not
\* because the process has ended
SamplerMoved == pc' # pc /\ pc' # "killed"

\* the frame of C13: once the consumer has dropped its receive side nothing
\* further is queued, the pass of the sampler that follows ends with a failed
\* send and the thread leaves its loop, and Stopped is never left
CancellationFrame ==
    /\ [][~app_running => thread_rx' = thread_rx]_vars
    /\ [][(~app_running /\ pc = "sample" /\ SamplerMoved) => pc' = "stopped"]_vars
    /\ [][pc = "stopped" => pc' = "stopped"]_vars

\* C13. Cancellation: once the consumer has dropped its receive side nothing
\* further is queued, the pass that follows ends with a failed send and the
\* thread leaves its loop, Stopped is never left, and (the sampler thread
\* being scheduled) Stopped is eventually reached.
Cancellation ==
    /\ CancellationFrame
    /\ (~app_running ~> pc = "stopped")

\* the Snapshots sent and not yet received
InFlight == {i \in DOMAIN thread_rx : thread_rx[i].type = "SysInfo"}
\* the largest capacity of a bounded channel that the exploration, which
\* stops at MaxQueue messages in flight, can tell from an unbounded one
Capacity == MaxQueue - 1

\* C14. Backpressure: the Snapshots sent and not yet received never exceed
\* the capacity of the delivery channel; the sampler blocks in send when
\* the consumer does not drain it.
Backpressure == Cardinality(InFlight) <= Capacity

\* C15. FIFO delivery: the channel changes only by a send at its tail, by
\* the consumer taking its head, or by the consumer dropping it; the
\* Snapshots in flight are in the order of their production (their uptimes),
\* whatever the event thread sends in between.
FifoDelivery ==
    /\ [][thread_rx' # thread_rx =>
            \/ app_running' /\ thread_rx # <<>> /\ thread_rx' = Tail(thread_rx)
            \/ /\ Len(thread_rx') = Len(thread_rx) + 1
               /\ SubSeq(thread_rx', 1, Len(thread_rx)) = thread_rx
            \/ ~app_running' /\ thread_rx' = <<>>]_vars
    /\ [](\A i, j \in InFlight :
             i < j => thread_rx[i].sys.uptime <= thread_rx[j].sys.uptime)

\* the Snapshots of two passes are in flight, the older one at the head
FifoDelivery_witness ==
    /\ InFlight = {1, 2}
    /\ thread_rx[1].sys.uptime < thread_rx[2].sys.uptime


\* C16: an unreadable load average does not end a pass without a result:
\* no get_system call returns the load-average error, the result carries
\* the default load average instead.
LoadAverageNonFatal == get_system_ret.err # "LoadAvg"

\* C18: a get_system call whose uptime, aggregate CPU or load-average source
\* is unreadable or malformed ends by returning an error value, never by
\* panicking.
PassFatalNeverPanics == get_system_ret.kind # "Panic"

\* C17: a process whose stat record cannot be read in a pass has no record
\* in the result of that pass: every record of a Snapshot sent by thread_main
\* and of a System returned by get_system belongs to an identity whose stat
\* was read, and so whose calculator was called, in that pass.
UnreadableStatSkipped ==
    [][/\ ThreadPass =>
            \A i \in DOMAIN SentSnapshot.processes :
                SentSnapshot.processes[i].pid \in DOMAIN thread_calls'
       /\ GetSystemPass =>
            \A i \in DOMAIN get_system_ret'.sys.processes :
                get_system_ret'.sys.processes[i].pid \in DOMAIN proc_calls']_vars

\* C19: the counters of every delivered result account for exactly its
\* records: processes + kernel_threads = number of records in process mode
\* (tasks + kernel_threads for get_system), processes + kernel_threads +
\* threads = number of records in thread mode, and no counter is negative.
SnapshotCompleteness ==
    [][/\ ThreadPass =>
            LET tc == SentSnapshot.thread_count
                n == Len(SentSnapshot.processes)
            IN  /\ tc.processes >= 0 /\ tc.kernel_threads >= 0 /\ tc.threads >= 0
                /\ ~send_threads => tc.processes + tc.kernel_threads = n
                /\ send_threads => tc.processes + tc.kernel_threads + tc.threads = n
       /\ GetSystemPass =>
            LET tc == get_system_ret'.sys.num_threads
                n == Len(get_system_ret'.sys.processes)
            IN  /\ tc.tasks >= 0 /\ tc.kernel_threads >= 0 /\ tc.threads >= 0
                /\ tc.tasks + tc.kernel_threads = n]_vars

\* a Snapshot with the records of a user process and of a kernel thread is
\* in flight, one counted in each counter
SnapshotCompleteness_witness ==
    \E i \in InFlight :
        /\ Len(thread_rx[i].sys.processes) = 2
        /\ thread_rx[i].sys.thread_count.processes = 1
        /\ thread_rx[i].sys.thread_count.kernel_threads = 1

\* the classification rule of (identity, parent identity, command line)
Classify(id, parent, cmdline) ==
    IF cmdline = "" THEN "KernelThread"
    ELSE IF id = parent THEN "Process"
    ELSE "Thread"

\* C20: every record is typed by the one rule: kernel thread when the
\* command line is empty or could not be discovered (the record's command
\* is then empty), else task/process when identity = parent identity, else
\* thread; in thread_main's records and in get_system's (whose Task is the
\* rule's Process).
ClassificationRule ==
    [][/\ ThreadPass =>
            \A i \in DOMAIN SentSnapshot.processes :
                LET r == SentSnapshot.processes[i]
                IN  r.process_type = Classify(r.pid, task[r.pid].tgid, r.command)
       /\ GetSystemPass =>
            \A i \in DOMAIN get_system_ret'.sys.processes :
                LET r == get_system_ret'.sys.processes[i]
                    type == Classify(r.pid, task[r.pid].tgid, r.cmdline)
                IN  r.process_type = (IF type = "Process" THEN "Task" ELSE type)]_vars

\* C21: when a wait of the sampler ends, the mode is the value of the most
\* recent SendThreads message the application had sent by then, also when
\* several messages were sent since the previous pass; so every pass starts
\* in the mode last asked for.
TogglePromptness ==
    [][(pc = "wait" /\ pc' = "sample" /\ main_rx # <<>>) =>
            send_threads' = main_rx[Len(main_rx)].state]_vars

\* C22: a wait of the sampler ends, and the next pass starts, only when the
\* cadence wait has elapsed since the pass or a SendThreads message has been
\* received; nothing else, the drop of the control channel's sender included,
\* ends the wait early.
Cadence ==
    [][(pc = "wait" /\ pc' = "sample") =>
            \/ uptime >= thr_uptime + WaitCs
            \/ main_rx # <<>> /\ Head(main_rx).type = "SendThreads"]_vars

\* the number of Snapshots in a queue
RECURSIVE CountSnapshots(_)
CountSnapshots(q) ==
    IF q = <<>> THEN 0
    ELSE (IF Head(q).type = "SysInfo" THEN 1 ELSE 0) + CountSnapshots(Tail(q))

\* the order and the sending of C23: a loop iteration either stops or
\* samples, sends exactly one Snapshot and then sleeps; the sleep is followed
\* by the next iteration; no Snapshot is sent outside an iteration; and a
\* receive of the consumer takes one message, the oldest, out of the channel,
\* so that no Snapshot is taken twice
PassOrder ==
    /\ [][pc = "sample" /\ pc' # pc =>
            \/ pc' \in {"stopped", "panicked"} /\ thread_rx' = thread_rx
            \/ /\ pc' = "wait"
               /\ Len(thread_rx') = Len(thread_rx) + 1
               /\ SubSeq(thread_rx', 1, Len(thread_rx)) = thread_rx
               /\ thread_rx'[Len(thread_rx')].type = "SysInfo"]_vars
    /\ [][pc = "wait" /\ pc' # pc => pc' = "sample" /\ thread_rx' = thread_rx]_vars
    /\ [][CountSnapshots(thread_rx') > CountSnapshots(thread_rx) =>
            pc = "sample" /\ pc' = "wait"]_vars
    /\ [][(app_running' /\ Len(thread_rx') < Len(thread_rx)) =>
            thread_rx' = Tail(thread_rx)]_vars

\* C23: a loop iteration either stops or samples, sends exactly one Snapshot
\* and then sleeps, the sleep being followed by the next iteration; and the
\* consumer takes each Snapshot that was sent exactly once: a Snapshot leaves
\* the channel only as the oldest message, in a receive that hands it to
\* handle_msg, never untaken.
PassProtocol ==
    /\ PassOrder
    /\ [][CountSnapshots(thread_rx') < CountSnapshots(thread_rx) =>
            /\ thread_rx' = Tail(thread_rx)
            /\ app'.last = "msg"
            /\ app'.current_data = Head(thread_rx)]_vars

\* the previous-sample store of thread_main and of Proc
ThreadStore == <<procstats, cpu_total_prev, cpus_prev>>
ProcStore == <<prev_cpus, prev_cpu_time>>

\* C24: the previous-sample store changes only in steps of the sampler: a
\* step that changes thread_main's store is a step of thread_main (its
\* position in the loop changes), a step that changes Proc's store is a
\* get_system call, and no step of the consumer or of the event thread (one
\* that changes a channel or ends the application without moving the
\* sampler) changes either store.
ExclusiveOwnership ==
    /\ [][ThreadStore' # ThreadStore => pc' # pc]_vars
    /\ [][ProcStore' # ProcStore =>
            /\ proc_calls' # NoCalls
            /\ UNCHANGED <<kernel_vars, thread_vars, chan_vars>>]_vars
    /\ [][(pc' = pc /\ chan_vars' # chan_vars) =>
            UNCHANGED <<ThreadStore, ProcStore>>]_vars

\* the sampler holds baselines from a pass and sleeps while an event of the
\* event thread is in the channel behind its Snapshot
ExclusiveOwnership_witness ==
    /\ pc = "wait"
    /\ DOMAIN procstats # {}
    /\ cpus_prev # <<>>
    /\ Len(thread_rx) = 2
    /\ thread_rx[2].type = "Event"

\* C25: when the total of a system or per-CPU sample has not advanced past
\* the total of the stored previous sample, the percentage a pass reports
\* for it is "unknown": no quotient with a zero or negative total delta is
\* computed.
AggregateZeroIntervalDefense ==
    [][/\ GetSystemPass =>
            \A i \in DOMAIN get_system_ret'.sys.cpu_usage :
                CpuTime_total(cpu_time[i]) <= CpuTime_total(prev_cpu_time[i]) =>
                    get_system_ret'.sys.cpu_usage[i] = None
       /\ ThreadPass =>
            /\ CpuMetrics_total_time(cpu_time[1])
                    <= CpuMetrics_total_time(cpu_total_prev) =>
                  SentSnapshot.average_cpu = None
            /\ \A i \in DOMAIN SentSnapshot.cpu_percents.v :
                  CpuMetrics_total_time(cpu_time[1 + i])
                      <= CpuMetrics_total_time(cpus_prev[i]) =>
                      SentSnapshot.cpu_percents.v[i] = None]_vars

\* a percentage computed from an underflowed u64 difference
Underflowed(p) == p.kind \in {"panic", "wrapped", "tiny", "wrapped_both"}

\* C26: a pass that finds the work or the total of a system or per-CPU
\* sample below that of the stored previous sample does not underflow the
\* subtraction: it does not panic, and no percentage it reports is computed
\* from a wrapped difference.
AggregateCounterDecreaseDefense ==
    [][/\ (/\ proc_vars' # proc_vars
           /\ \E i \in DOMAIN prev_cpu_time :
                 \/ CpuTime_total(cpu_time[i]) < CpuTime_total(prev_cpu_time[i])
                 \/ CpuTime_work(cpu_time[i]) < CpuTime_work(prev_cpu_time[i])) =>
            /\ get_system_ret'.kind = "Ok"
            /\ \A i \in DOMAIN get_system_ret'.sys.cpu_usage :
                  ~Underflowed(get_system_ret'.sys.cpu_usage[i])
       /\ (/\ pc = "sample" /\ pc' # pc
           /\ \/ CpuMetrics_total_time(cpu_time[1]) < CpuMetrics_total_time(cpu_total_prev)
              \/ CpuMetrics_work_time(cpu_time[1]) < CpuMetrics_work_time(cpu_total_prev)) =>
            /\ pc' # "panicked"
            /\ pc' = "wait" =>
                  /\ ~Underflowed(SentSnapshot.average_cpu)
                  /\ \A i \in DOMAIN SentSnapshot.cpu_percents.v :
                        ~Underflowed(SentSnapshot.cpu_percents.v[i])]_vars

\* the timestamps and cumulative ticks an observation can carry
ObsTimes == {BootUptime + k * WaitCs : k \in 0..MaxClockTicks}
ObsTicks == 0..MaxTicks

\* a calculator call on the store `before` that returned r has set the entry
\* of id and nothing else
BaselineUpdated(before, r, id, entry) ==
    r.ret.kind # "panic" =>
        /\ DOMAIN r.map = DOMAIN before \cup {id}
        /\ r.map[id] = entry
        /\ \A q \in DOMAIN before \ {id} : r.map[q] = before[q]

\* C27: on every store a sampler can hold, an observation of any identity
\* with (timestamp t, cumulative ticks c) that returns, first or subsequent,
\* leaves exactly (t, c) as the entry of that identity and every other entry
\* as it was; for the calculators of proc/prev_cpu.rs, proc/mod.rs and
\* sysinfo_thread.rs.
BaselineUpdate ==
    \A id \in Ids, t \in ObsTimes, c \in ObsTicks :
        /\ BaselineUpdated(prev_cpus,
               PrevCpuMap_calculate(prev_cpus, id, t, c, TicksPerSecond,
                                    overflow_checks),
               id, [uptime |-> t, cpu_used |-> c])
        /\ BaselineUpdated(prev_cpus,
               mod_PrevCpuMap_calculate(prev_cpus, id, t, c, TicksPerSecond,
                                        overflow_checks),
               id, [uptime |-> t, cpu_used |-> c])
        /\ BaselineUpdated(procstats,
               ProcStatsHashMap_cpu_usage(procstats, id, c, t, TicksPerSecond,
                                          overflow_checks),
               id, [last_update |-> t, used_time |-> c])

\* a pass has observed two identities, one of them for the second time, and
\* the store holds the pair of this pass for both
BaselineUpdate_witness ==
    \/ /\ pc = "wait"
       /\ Cardinality(DOMAIN procstats) = 2
       /\ \E id \in DOMAIN thread_calls : thread_calls[id].had
       /\ \A id \in DOMAIN procstats : procstats[id].last_update = thr_uptime
    \/ /\ get_system_ret.kind = "Ok"
       /\ Cardinality(DOMAIN prev_cpus) = 2
       /\ \E id \in DOMAIN proc_calls : proc_calls[id].had
       /\ \A id \in DOMAIN prev_cpus :
              prev_cpus[id].uptime = get_system_ret.sys.uptime

\* C28: a call that finds a baseline (t0, c0) and is given (t1, c1) with
\* t1 > t0 and c1 - c0 above the ticks of one core in the interval,
\* (t1 - t0) * ticks_per_second, returns a finite value greater than 100:
\* the percentage is neither clamped nor divided by the number of CPUs.
NotClamped ==
    \A c \in Calls :
        (c.had /\ c.dt > 0 /\ c.dc * CsPerSecond > c.dt * TicksPerSecond) =>
            c.ret.kind = "fin" /\ c.ret.n > 100 * c.ret.d

\* the calculator of proc/prev_cpu.rs or of sysinfo_thread.rs was given the
\* ticks of two busy cores over one interval and returned 200
NotClamped_witness ==
    /\ sampler # "Proc_mod"
    /\ \E c \in Calls :
          /\ c.had /\ c.dt = WaitCs /\ c.dc = 2 * TicksPerInterval
          /\ c.ret = Fin(200, 1)

\* C29: every stat record is accepted and its cumulative tick counter is
\* utime + stime, for every pair of values the kernel can report: the parse
\* neither rejects the record nor panics, and the sum has not wrapped.
CumulativeTicksExact ==
    stat_parsed.kind # "NotCalled" =>
        /\ stat_parsed.kind = "Ok"
        /\ stat_parsed.cpu_used = stat_parsed.utime + stat_parsed.stime

\* C30: a pass of thread_main that sends a Snapshot either could not read
\* the aggregate CPU source, and then both percentages of the Snapshot are
\* absent and the stored aggregate and per-CPU baselines are unchanged; or
\* it read the source, and then the baselines are the sample just read and
\* the percentages are absent without a stored baseline and otherwise
\* computed against the stored baseline, the last sample read successfully.
KernelStatsFailureFrame ==
    [][ThreadPass =>
        LET absent == /\ SentSnapshot.average_cpu = None
                      /\ SentSnapshot.cpu_percents = NoneVec
            had == CpuMetrics_total_time(cpu_total_prev) > 0
        IN  \/ /\ absent
               /\ cpu_total_prev' = cpu_total_prev
               /\ cpus_prev' = cpus_prev
            \/ /\ cpu_total_prev' = cpu_time[1]
               /\ cpus_prev' = Tail(cpu_time)
               /\ IF had
                  THEN /\ SentSnapshot.average_cpu =
                            CpuMetrics_cpu_usage(cpu_time[1], cpu_total_prev,
                                                 overflow_checks)
                       /\ SentSnapshot.cpu_percents =
                            SomeVec(ZipUsage(Tail(cpu_time), cpus_prev))
                  ELSE absent]_vars

\* the second pass has sent a Snapshot without percentages although a
\* baseline was stored, and the baseline is still the sample of the first
\* pass
KernelStatsFailureFrame_witness ==
    /\ pc = "wait"
    /\ thr_uptime > BootUptime
    /\ thread_rx # <<>>
    /\ thread_rx[Len(thread_rx)].type = "SysInfo"
    /\ thread_rx[Len(thread_rx)].sys.average_cpu = None
    /\ thread_rx[Len(thread_rx)].sys.cpu_percents = NoneVec
    /\ cpu_total_prev = BootCpuLine(NumCpus)

\* C31: a wait that ends with a SendThreads message repeating the current
\* mode, or with a message that is not SendThreads, leaves the mode and the
\* per-process store as they were; and in a pass that follows a wait which
\* did not change the mode, every identity observed in this pass and in the
\* one before is computed against its stored baseline and gets a numeric
\* percentage (IsNumber).
SameModeMessageNoEffect ==
    /\ [][(/\ pc = "wait" /\ pc' = "sample"
           /\ main_rx # <<>>
           /\ \/ Head(main_rx).type # "SendThreads"
              \/ Head(main_rx).state = send_threads) =>
            /\ send_threads' = send_threads
            /\ procstats' = procstats]_vars
    /\ [][(ThreadPass /\ ~toggled) =>
            \A id \in DOMAIN thread_calls' \cap DOMAIN thread_calls :
                /\ thread_calls'[id].had
                /\ IsNumber(thread_calls'[id].ret)]_vars

\* a get_system call that returned an error
FailedPass == proc_vars' # proc_vars /\ get_system_ret'.kind = "Err"

\* C32: a get_system call that returns an error after its process loop has
\* started leaves the system CPU baseline as it was; every process read
\* before the error has its baseline at the failed pass's (uptime, ticks);
\* and when the error is met inside the loop, before cleanup, no identity of
\* the store is evicted.
NoRollback ==
    [][FailedPass =>
        /\ prev_cpu_time' = prev_cpu_time
        /\ \A pid \in DOMAIN proc_calls' :
              /\ pid \in DOMAIN prev_cpus'
              /\ prev_cpus'[pid] = [uptime |-> uptime,
                                    cpu_used |-> ProcessTicks(pid)]
        /\ get_system_ret'.err = "StatParsing" =>
              DOMAIN prev_cpus \subseteq DOMAIN prev_cpus']_vars

\* a pass failed in the loop after it had read a process that had an older
\* baseline, and no pass has succeeded yet
NoRollback_witness ==
    /\ get_system_ret.kind = "Err"
    /\ get_system_ret.err = "StatParsing"
    /\ \E pid \in DOMAIN proc_calls :
          /\ proc_calls[pid].had
          /\ proc_calls[pid].dt > 0
          /\ proc_calls[pid].dc > 0
          /\ prev_cpus[pid] = [uptime |-> uptime, cpu_used |-> ProcessTicks(pid)]
    /\ prev_cpu_time = <<>>

\* the sum of num_threads - 1 over the processes S, as the kernel reports
\* num_threads during the pass
RECURSIVE SumThreads(_)
SumThreads(S) ==
    IF S = {} THEN 0
    ELSE LET p == CHOOSE q \in S : TRUE
         IN  (Stat_num_threads(p) - 1) + SumThreads(S \ {p})

\* C33: in process mode the thread counter of a delivered Snapshot is the
\* sum of num_threads - 1 over the processes whose stat record the pass
\* read, and it is neither negative nor wrapped.
ThreadCounterExact ==
    /\ [][(ThreadPass /\ ~send_threads) =>
            LET threads == SentSnapshot.thread_count.threads
            IN  /\ threads = SumThreads(DOMAIN thread_calls')
                /\ threads >= 0]_vars
    /\ [][GetSystemPass =>
            LET threads == get_system_ret'.sys.num_threads.threads
            IN  /\ threads = SumThreads(DOMAIN proc_calls')
                /\ threads >= 0]_vars

\* the smaller of two numbers
Min(a, b) == IF a <= b THEN a ELSE b

\* the widths the widget is given: too narrow for one CPU entry, and wide
\* enough for one, two or three
WidgetWidths == {0, COL_SIZE - 1, COL_SIZE, 2 * COL_SIZE + 1, 3 * COL_SIZE}

\* the CPU entries of the lines of a widget, in display order
RECURSIVE Flatten(_)
Flatten(lines) ==
    IF lines = <<>> THEN <<>>
    ELSE Head(lines).cpus \o Flatten(Tail(lines))

\* C34: the per-CPU percentages pair the current and the previous samples
\* by index: the list is as long as the shorter of the two sample lists and
\* entry i is the usage between sample i of this pass and sample i of the
\* pass before; in get_system entry 0 is computed from the aggregate line
\* and the entries after it from the CPU lines in order, which are the
\* average and the CPU values CpuInfoWidget::new takes from the list when
\* its width has room for a CPU entry.
PairedByIndex ==
    [][/\ (ThreadPass /\ SentSnapshot.cpu_percents.kind = "some") =>
            LET v == SentSnapshot.cpu_percents.v
                cpus == Tail(cpu_time)
            IN  /\ Len(v) = Min(Len(cpus), Len(cpus_prev))
                /\ \A i \in DOMAIN v :
                      v[i] = CpuMetrics_cpu_usage(cpus[i], cpus_prev[i],
                                                  overflow_checks)
       /\ (GetSystemPass /\ prev_cpu_time # <<>>) =>
            LET v == get_system_ret'.sys.cpu_usage
            IN  /\ Len(v) = Min(Len(cpu_time), Len(prev_cpu_time))
                /\ \A i \in DOMAIN v :
                      v[i] = CpuTime_cpu_usage(cpu_time[i], prev_cpu_time[i],
                                               overflow_checks)
                /\ \A width \in WidgetWidths :
                      LET widget == CpuInfoWidget_new(SomeVec(v), width)
                          shown == Flatten(widget.cpu_lines)
                      IN  IF width < COL_SIZE
                          THEN widget.kind = "panic"
                          ELSE /\ widget.kind = "ok"
                               /\ widget.average =
                                     CpuTime_cpu_usage(cpu_time[1], prev_cpu_time[1],
                                                       overflow_checks)
                               /\ Len(shown) = Len(v) - 1
                               /\ \A k \in DOMAIN shown :
                                     /\ shown[k].i = k - 1
                                     /\ shown[k].p =
                                          CpuTime_cpu_usage(cpu_time[1 + k],
                                                            prev_cpu_time[1 + k],
                                                            overflow_checks)]_vars

\* get_system returned percentages for the aggregate line and one CPU while
\* two CPUs were listed: one had come online since the pass before
PairedByIndex_witness ==
    /\ get_system_ret.kind = "Ok"
    /\ Len(get_system_ret.sys.cpu_usage) = 2
    /\ Len(prev_cpu_time) = 3

\* the numbers of the events in flight, in channel order
RECURSIVE EventsOf(_)
EventsOf(q) ==
    IF q = <<>> THEN <<>>
    ELSE IF Head(q).type = "Event" THEN <<Head(q).n>> \o EventsOf(Tail(q))
    ELSE EventsOf(Tail(q))

\* C35: the event thread sends each event it reads, as the last message of
\* the consumer channel, before it reads the next one, so the events in
\* flight are in the order read; a failed read or a send to a dropped
\* receiver stops the thread at once with nothing sent, and a stopped thread
\* stays stopped and adds no event to the channel.
EventForwarding ==
    /\ [][event_thread' # event_thread =>
            IF event_thread'.last = "Ok" /\ app_running
            THEN /\ event_thread'.pc = "read"
                 /\ event_thread'.read = event_thread.read + 1
                 /\ thread_rx' = Append(thread_rx, [type |-> "Event",
                                                    n |-> event_thread'.read])
            ELSE /\ event_thread'.pc = "stopped"
                 /\ thread_rx' = thread_rx]_vars
    /\ [][event_thread.pc = "stopped" =>
            /\ event_thread' = event_thread
            /\ \A i \in DOMAIN EventsOf(thread_rx') :
                  \E j \in DOMAIN EventsOf(thread_rx) :
                      EventsOf(thread_rx')[i] = EventsOf(thread_rx)[j]]_vars
    /\ [](\A i, j \in DOMAIN EventsOf(thread_rx) :
             i < j => EventsOf(thread_rx)[i] < EventsOf(thread_rx)[j])

\* the thread forwarded two events, which are in flight in the order read,
\* and stopped when the next read failed
EventForwarding_witness ==
    /\ event_thread = [pc |-> "stopped", read |-> 2, last |-> "Err"]
    /\ EventsOf(thread_rx) = <<1, 2>>

\* every received message replaces current_data and nothing else changes it
DisplayedIsLatest ==
    /\ app'.last = "msg" => app'.current_data = Head(thread_rx)
    /\ app'.last # "msg" => app'.current_data = app.current_data

\* run takes the message stream for ended only when the channel is empty and
\* no Sender is left, and it sets exit exactly for a press of 'q'
StreamClosed ==
    /\ app'.last = "msg_closed" => (thread_rx = <<>> /\ SendersDropped)
    /\ app'.exit <=> app'.last = "press_q"

\* C36: App::run returns exactly when it has handled a press of 'q' or one
\* of its two input streams has ended; and while it runs, current_data is
\* the message received last.
AppTermination ==
    [][app' # app =>
        /\ app'.ret # "running" <=>
               app'.last \in {"press_q", "msg_closed", "event_closed"}
        /\ StreamClosed
        /\ DisplayedIsLatest]_vars

\* C36, amended: App::run returns exactly when it has handled a press of
\* 'q', one of its two input streams has ended, or drawing a frame has
\* failed, in which case it returns the error; and while it runs,
\* current_data is the message received last.
AppTerminationOrDrawError ==
    [][app' # app =>
        /\ app'.ret # "running" <=>
               app'.last \in {"press_q", "msg_closed", "event_closed", "draw_failed"}
        /\ app'.ret = "Err" <=> app'.last = "draw_failed"
        /\ StreamClosed
        /\ DisplayedIsLatest]_vars

\* run showed a Snapshot it had received and returned the error of a draw
AppTerminationOrDrawError_witness ==
    /\ app.ret = "Err"
    /\ app.last = "draw_failed"
    /\ app.current_data.type = "SysInfo"

\* a usage that is known and a number
Known(r) == r.cpu_usage.kind \notin {"none", "nan"}

\* C37: after set_data the stored records are a rearrangement of the
\* delivered ones in which no record is followed by one of a greater usage
\* and no record of unknown usage is followed by one of a known usage.
SortedByUsage ==
    process_list.state = "set" =>
        LET v == process_list.processes
        IN  /\ v \in Rearrangements(process_list.delivered)
            /\ \A i, j \in DOMAIN v :
                  (i < j /\ Known(v[i]) /\ Known(v[j])) =>
                      FloatCmp(v[i].cpu_usage, v[j].cpu_usage) # "Less"
            /\ \A i, j \in DOMAIN v :
                  (i < j /\ v[i].cpu_usage.kind = "none") =>
                      v[j].cpu_usage.kind = "none"
====
